---- MODULE Spec2Model ----
(***************************************************************************)
(* Bifrost: the stale-while-revalidate cache (legacy/variant2 core/cache), *)
(* the connector that drives it with a retried HTTP producer, and the      *)
(* server PwConnector with its BifrostCache.                               *)
(*                                                                         *)
(* JavaScript runs handlers to completion: a step of the model is one run  *)
(* of synchronous code, from a call or a promise continuation up to the    *)
(* next await.  Time is in milliseconds.                                   *)
(***************************************************************************)
EXTENDS Integers, Sequences, FiniteSets, TLC

VARIABLES
    now,          \* Date.now()
    store,        \* StaleWhileRevalidateCache._store : key -> {timestamp, value}
    refreshing,   \* StaleWhileRevalidateCache._refreshing (set of marked keys)
    tasks,        \* _fetchAndCache invocations whose promise chain is not finished
    calls,        \* every get call so far, as the caller sees it
    lastRefresh,  \* per key: the status of the most recent background refresh, the
                  \* value of the last successful one, and whether no first-miss
                  \* producer of the key was in flight when it succeeded
    fetches,      \* _fetchWithRetry invocations of the connector, by task id
    pwBackend,    \* BifrostCache._backend : url -> {ts, val}
    pwProcessMap, \* BifrostCache._processMap (set of urls being refreshed)
    pwJobs,       \* PwConnector fetches in flight, first-miss and background
    pwCalls,      \* every PwConnector.get call so far, as the caller sees it
    wtPropGlobLastIndex, \* REGEX.wt_prop_glob.lastIndex of the property parser
    parses,       \* every parseFromSMW call of the payload under study: the
                  \* payload and the record the call returned
    svcReqs,      \* every PsychonautWikiService.getSubstances invocation so far
    svcOps,       \* every resolveInteractions call on the service so far
    gqlRequest,   \* the GraphQL request being executed: the resolver map in
                  \* use, its root fields, and how many of them have been run
    ctxArgs,      \* ctx.args of the request
    fieldRuns,    \* the resolver invocations of the request so far
    pwServiceCalls, \* the service calls the resolvers made, as promises
    arbitrated,   \* the last SMWDataArbitrator.parse call: its payload and
                  \* what it returned or that it threw
    finds         \* every find call on the erowid reports so far

cacheVars == <<store, refreshing, tasks, calls, lastRefresh>>
connVars == <<fetches>>
pwVars == <<pwBackend, pwProcessMap, pwJobs, pwCalls>>
parserVars == <<wtPropGlobLastIndex, parses>>
svcVars == <<svcReqs, svcOps>>
resVars == <<gqlRequest, ctxArgs, fieldRuns, pwServiceCalls>>
helperVars == <<arbitrated, finds>>
vars == <<now, cacheVars, connVars, pwVars, parserVars, svcVars, resVars, helperVars>>

\* what the actions of one component leave alone
outsideCache == <<connVars, pwVars, parserVars, svcVars, resVars, helperVars>>
outsideConn == <<pwVars, parserVars, svcVars, resVars, helperVars>>
outsidePw == <<cacheVars, connVars, parserVars, svcVars, resVars, helperVars>>
outsideParser == <<now, cacheVars, connVars, pwVars, svcVars, resVars, helperVars>>
outsideSvc == <<now, pwVars, parserVars, resVars, helperVars>>
outsideRes == <<now, cacheVars, connVars, pwVars, parserVars, svcVars, helperVars>>
outsideHelpers == <<now, cacheVars, connVars, pwVars, parserVars, svcVars, resVars>>

----------------------------------------------------------------------------
(* Bounds of the model *)

Keys == {"k1", "k2"}
\* number of get calls in a behaviour
MaxCalls == 4
\* the clock stops here
MaxTime == 3000
\* granularity of the clock
TickMs == 1000
\* constructor argument ttl (cache.js:14), scaled to the clock's granularity
Ttl == 1000

----------------------------------------------------------------------------
(* StaleWhileRevalidateCache *)

EmptyMap == [k \in {} |-> 0]

Has(k) == k \in DOMAIN store

\* line 36, with >= in place of >
IsExpiredAtTtl(timestamp) == (now - timestamp) >= Ttl
\* const isExpired = (Date.now() - timestamp) > this._ttl
IsExpired(timestamp) == (now - timestamp) > Ttl

\* line 45 without the check
NeverRefreshing(k) == FALSE
\* if (this._refreshing.get(key))
AlreadyRefreshing(k) == k \in refreshing

\* the set of lines 70-73 keeping the timestamp of the entry it replaces
StoreSetKeepTimestamp(k, v) ==
    [x \in DOMAIN store \cup {k} |->
        IF x = k
        THEN [timestamp |-> IF Has(k) THEN store[k].timestamp ELSE now, value |-> v]
        ELSE store[x]]
\* this._store.set(key, { timestamp: Date.now(), value })
StoreSet(k, v) ==
    [x \in DOMAIN store \cup {k} |->
        IF x = k THEN [timestamp |-> now, value |-> v] ELSE store[x]]

\* a catch block that drops the entry of the key whose fetch failed
StoreEvictOnFailure(k) == [x \in DOMAIN store \ {k} |-> store[x]]
\* catch (err) { log; throw err }: the store is not touched
StoreOnFailure(k) == store

\* a first-miss failure swallowed: the caller gets null
CallerGetsNull(c) == [c EXCEPT !.state = "returned", !.value = 0]
\* throw err (line 77) through return this._fetchAndCache(...) (line 32)
CallerGetsError(c) == [c EXCEPT !.state = "threw"]

\* the mark cleared in .then, that is on success only
UnmarkOnSuccess(t) == IF t.phase = "resolved" THEN refreshing \ {t.key} ELSE refreshing
\* .finally(() => { this._refreshing.delete(key) })
\* the mark is left where it is
UnmarkNothing(t) == refreshing
Unmark(t) == refreshing \ {t.key}

\* The record of a get call: what the caller found and what it got.
\*   had/age/stored : the entry at the time of the call
\*   marked         : the key was in _refreshing at the time of the call
\*   after/afterVal/afterClean : lastRefresh of the key at the time of the call
\*   invoked        : the call invoked its producer; bg: in the background
\*   state/value    : "waiting", or "returned" with value, or "threw"
CallRecord(k) ==
    [key |-> k,
     had |-> Has(k),
     age |-> IF Has(k) THEN now - store[k].timestamp ELSE 0,
     stored |-> IF Has(k) THEN store[k].value ELSE 0,
     marked |-> k \in refreshing,
     after |-> lastRefresh[k].status,
     afterVal |-> lastRefresh[k].value,
     afterClean |-> lastRefresh[k].clean,
     invoked |-> FALSE, bg |-> FALSE, state |-> "waiting", value |-> 0]

Task(n, k, isBg) == [id |-> n, key |-> k, bg |-> isBg, phase |-> "awaiting"]

\* Case 1: if (!cached) return this._fetchAndCache(key, fetchProvider)
\* The producer is invoked in the same run; the caller waits for it.
GetMiss(k, n) ==
    /\ calls' = Append(calls, [CallRecord(k) EXCEPT !.invoked = TRUE])
    /\ tasks' = tasks \cup {Task(n, k, FALSE)}
    /\ UNCHANGED <<store, refreshing, lastRefresh>>

\* Case 2 and the first branch of case 3: return value
GetReturnStored(k) ==
    /\ calls' = Append(calls, [CallRecord(k) EXCEPT !.state = "returned",
                                                    !.value = store[k].value])
    /\ UNCHANGED <<store, refreshing, tasks, lastRefresh>>

\* case 3 awaiting the refresh it starts, as an earlier connector did
GetExpiredAwaiting(k, n) ==
    IF AlreadyRefreshing(k)
    THEN GetReturnStored(k)
    ELSE /\ refreshing' = refreshing \cup {k}
         /\ tasks' = tasks \cup {Task(n, k, FALSE)}
         /\ calls' = Append(calls, [CallRecord(k) EXCEPT !.invoked = TRUE])
         /\ lastRefresh' = [lastRefresh EXCEPT ![k].status = "running"]
         /\ UNCHANGED store
\* Case 3: the entry is expired
GetExpired(k, n) ==
    IF AlreadyRefreshing(k)
    THEN GetReturnStored(k)
    ELSE /\ refreshing' = refreshing \cup {k}
         /\ tasks' = tasks \cup {Task(n, k, TRUE)}
         /\ calls' = Append(calls, [CallRecord(k) EXCEPT !.invoked = TRUE, !.bg = TRUE,
                                                         !.state = "returned",
                                                         !.value = store[k].value])
         /\ lastRefresh' = [lastRefresh EXCEPT ![k].status = "running"]
         /\ UNCHANGED store

\* async get(key, fetchProvider): the n-th call of the behaviour
CacheGet(k, n) ==
    IF ~Has(k) THEN GetMiss(k, n)
    ELSE IF ~IsExpired(store[k].timestamp) THEN GetReturnStored(k)
    ELSE GetExpired(k, n)

\* a first-miss _fetchAndCache of key k is still awaiting its producer
FirstMissInFlight(k) == \E s \in tasks : s.key = k /\ ~s.bg

\* _fetchAndCache after await fetchProvider() resolved with v: lines 70-74.
\* A first-miss caller gets v; a background task goes on to its .finally.
FetchAndCacheResolve(t, v) ==
    /\ store' = StoreSet(t.key, v)
    /\ IF t.bg
       THEN /\ tasks' = (tasks \ {t}) \cup {[t EXCEPT !.phase = "resolved"]}
            /\ calls' = calls
       ELSE /\ tasks' = tasks \ {t}
            /\ calls' = [calls EXCEPT ![t.id].state = "returned", ![t.id].value = v]
    /\ lastRefresh' = IF t.bg
                      THEN [lastRefresh EXCEPT ![t.key].value = v,
                                               ![t.key].clean = ~FirstMissInFlight(t.key)]
                      ELSE lastRefresh
    /\ UNCHANGED refreshing

\* _fetchAndCache after await fetchProvider() rejected: lines 75-78.
\* A first-miss caller gets the error; a background task goes on to .catch.
FetchAndCacheReject(t) ==
    /\ store' = StoreOnFailure(t.key)
    /\ IF t.bg
       THEN /\ tasks' = (tasks \ {t}) \cup {[t EXCEPT !.phase = "rejected"]}
            /\ calls' = calls
       ELSE /\ tasks' = tasks \ {t}
            /\ calls' = [calls EXCEPT ![t.id] = CallerGetsError(calls[t.id])]
    /\ UNCHANGED <<refreshing, lastRefresh>>

\* .catch(err => log) and .finally(() => this._refreshing.delete(key)) of the
\* background chain, lines 56-61; they run in later microtasks than the settle.
FinishRefresh(t) ==
    /\ refreshing' = Unmark(t)
    /\ tasks' = tasks \ {t}
    /\ lastRefresh' = [lastRefresh EXCEPT
           ![t.key].status = IF t.phase = "resolved" THEN "ok" ELSE "failed"]
    /\ UNCHANGED <<store, calls>>

----------------------------------------------------------------------------
(* The cache with an arbitrary producer: it settles once, either way.  The *)
(* value a producer resolves with is the number of the call that passed it.*)

Get(k) ==
    /\ Len(calls) < MaxCalls
    /\ CacheGet(k, Len(calls) + 1)
    /\ UNCHANGED <<now, outsideCache>>

ProducerResolves(t) ==
    /\ t.phase = "awaiting"
    /\ FetchAndCacheResolve(t, t.id)
    /\ UNCHANGED <<now, outsideCache>>

ProducerRejects(t) ==
    /\ t.phase = "awaiting"
    /\ FetchAndCacheReject(t)
    /\ UNCHANGED <<now, outsideCache>>

RefreshFinally(t) ==
    /\ t.bg
    /\ t.phase # "awaiting"
    /\ FinishRefresh(t)
    /\ UNCHANGED <<now, outsideCache>>

Tick ==
    /\ now + TickMs <= MaxTime
    /\ now' = now + TickMs
    /\ UNCHANGED <<cacheVars, connVars, pwVars, parserVars, svcVars, resVars, helperVars>>

Init ==
    /\ now = 0
    /\ store = EmptyMap
    /\ refreshing = {}
    /\ tasks = {}
    /\ calls = <<>>
    /\ lastRefresh = [k \in Keys |-> [status |-> "none", value |-> 0, clean |-> TRUE]]
    /\ fetches = EmptyMap
    /\ pwBackend = EmptyMap
    /\ pwProcessMap = {}
    /\ pwJobs = {}
    /\ pwCalls = <<>>
    /\ wtPropGlobLastIndex = 0
    /\ parses = <<>>
    /\ svcReqs = <<>>
    /\ svcOps = <<>>
    /\ gqlRequest = [impl |-> "none", fields |-> <<>>, started |-> 0]
    /\ arbitrated = [called |-> FALSE, payload |-> <<>>, threw |-> FALSE, properties |-> <<>>]
    /\ finds = <<>>
    /\ ctxArgs = [query |-> "", effect |-> "", substance |-> "", limit |-> 0, offset |-> 0]
    /\ fieldRuns = <<>>
    /\ pwServiceCalls = <<>>

Next ==
    \/ \E k \in Keys : Get(k)
    \/ \E t \in tasks : ProducerResolves(t)
    \/ \E t \in tasks : ProducerRejects(t)
    \/ \E t \in tasks : RefreshFinally(t)
    \/ Tick

Spec == Init /\ [][Next]_vars

----------------------------------------------------------------------------
(* PsychonautWikiConnector (legacy/variant2): get(params) delegates to the  *)
(* cache with the URL as key and _fetchWithRetry(url) as producer.          *)

\* number of connector get calls in a behaviour
MaxConnCalls == 2
\* the clock of the connector's behaviours stops here
MaxConnTime == 7000
\* async _fetchWithRetry(url, retries = 3)
Retries == 3
\* const delay = 1000 * (i + 1)
BackoffMs == 1000

\* What one HTTP attempt can come to: a 2xx response with a JSON body, a
\* response with another status, a rejected fetch.
Responses == {"ok", "http", "transport"}

\* line 39 left out: any response that parses counts as a success
AttemptFailsUnlessParsed(r) == r = "transport"
\* try { fetch; if (!res.ok) throw; return await res.json() } catch ...
AttemptFails(r) == r # "ok"

\* giving up after the first retry
IsLastAttemptEarly(i) == i = 1
\* if (i === retries)
IsLastAttempt(i) == i = Retries

\* a constant delay
DelayConstant(i) == BackoffMs
\* const delay = 1000 * (i + 1)
Delay(i) == BackoffMs * (i + 1)

\* The state of one _fetchWithRetry invocation: the loop index i, where it is
\* (pc: in fetch, in the setTimeout sleep, or done), the time the sleep ends,
\* how it ended, and what the upstream did: the number of fetch(url) calls
\* that have settled, how many of them the upstream failed, and what the
\* last one came to (until the next one starts).
NewFetch(u) ==
    [url |-> u, i |-> 0, pc |-> "fetch", wakeAt |-> 0, outcome |-> "none",
     attempts |-> 0, upFailures |-> 0, lastResult |-> "none"]

MapPut(f, x, v) == [y \in DOMAIN f \cup {x} |-> IF y = x THEN v ELSE f[y]]

TaskOf(id) == CHOOSE t \in tasks : t.id = id

\* async get(params): return this._cache.get(url, () => this._fetchWithRetry(url))
ConnectorGet(u) ==
    /\ CacheGet(u, Len(calls) + 1)
    /\ fetches' = IF calls'[Len(calls) + 1].invoked
                  THEN MapPut(fetches, Len(calls) + 1, NewFetch(u))
                  ELSE fetches

\* a get call on the connector by a caller that is not modelled
ConnGet(u) ==
    /\ Len(calls) < MaxConnCalls
    /\ ConnectorGet(u)
    /\ UNCHANGED <<now, outsideConn>>

\* One pass of the loop body from the point where fetch(url) settles with r:
\* return the body, or throw for good, or start the sleep before the next try.
FetchSettles(id, r) ==
    LET f == fetches[id]
        g == [f EXCEPT !.attempts = @ + 1,
                       !.upFailures = IF r = "ok" THEN @ ELSE @ + 1,
                       !.lastResult = r]
    IN  /\ f.pc = "fetch"
        /\ IF ~AttemptFails(r)
           THEN /\ fetches' = [fetches EXCEPT ![id] = [g EXCEPT !.pc = "done",
                                                                !.outcome = "resolved"]]
                /\ FetchAndCacheResolve(TaskOf(id), id)
           ELSE IF IsLastAttempt(f.i)
           THEN /\ fetches' = [fetches EXCEPT ![id] = [g EXCEPT !.pc = "done",
                                                                !.outcome = "rejected"]]
                /\ FetchAndCacheReject(TaskOf(id))
           ELSE /\ fetches' = [fetches EXCEPT ![id] = [g EXCEPT !.pc = "sleep",
                                                      !.wakeAt = now + Delay(f.i)]]
                /\ UNCHANGED cacheVars
        /\ UNCHANGED <<now, outsideConn>>

\* await new Promise(resolve => setTimeout(resolve, delay)), then i++ and the
\* next fetch(url)
TimerFires(id) ==
    /\ fetches[id].pc = "sleep"
    /\ now >= fetches[id].wakeAt
    /\ fetches' = [fetches EXCEPT ![id].pc = "fetch", ![id].i = @ + 1,
                                  ![id].wakeAt = 0, ![id].lastResult = "none"]
    /\ UNCHANGED <<now, cacheVars, outsideConn>>

ConnTick ==
    /\ now + TickMs <= MaxConnTime
    /\ now' = now + TickMs
    /\ UNCHANGED <<cacheVars, connVars, pwVars, parserVars, svcVars, resVars, helperVars>>

ConnNext ==
    \/ \E u \in Keys : ConnGet(u)
    \/ \E id \in DOMAIN fetches : \E r \in Responses : FetchSettles(id, r)
    \/ \E id \in DOMAIN fetches : TimerFires(id)
    \/ \E t \in tasks : RefreshFinally(t)
    \/ ConnTick

SpecConn == Init /\ [][ConnNext]_vars

----------------------------------------------------------------------------
(* Server PwConnector and its BifrostCache (server/graph/storage/connector) *)

\* number of PwConnector.get calls in a behaviour
MaxPwCalls == 3
\* the clock of the PwConnector's behaviours stops here
MaxPwTime == 3000
\* fetch(url) calls one job may make in a behaviour
MaxPwAttempts == 5
\* this._CACHE_LIFETIME (thirty minutes), scaled to the clock's granularity
PwLifetime == 1000
\* if (failures > 3)
PwMaxFailures == 3
\* sleepAsync(1000 * failures)
PwBackoffMs == 1000

\* What fetch(url) can come to: "ok" a 2xx response with a JSON body, "http"
\* a response of another status with a JSON body, "httpText" one of another
\* status whose body is no JSON, "badjson" a 2xx body that is no JSON,
\* "transport" a rejected fetch.  node-fetch resolves for every status.
PwResponses == {"ok", "http", "httpText", "badjson", "transport"}

\* The parsed body of response r to job id: the bodies of 2xx responses are
\* positive, those of other statuses negative; 0 stands for null.
PwBody(id, r) == IF r = "ok" THEN id ELSE 0 - id

\* fetch(url).then(res => res.json()): rejected when fetch rejects or the
\* body does not parse; the status is not looked at
PwFetchRejects(r) == r \in {"transport", "httpText", "badjson"}

PwHas(u) == u \in DOMAIN pwBackend

\* BifrostCache.get: requireRefresh
PwRequireRefresh(u) == (now - pwBackend[u].ts) > PwLifetime

\* BifrostCache.isBeingRefreshed
PwIsBeingRefreshed(u) == u \in pwProcessMap

\* BifrostCache.add
PwAdd(u, v) == MapPut(pwBackend, u, [ts |-> now, val |-> v])

PwCallRecord(u) ==
    [url |-> u, had |-> PwHas(u),
     stored |-> IF PwHas(u) THEN pwBackend[u].val ELSE 0,
     state |-> "waiting", value |-> 0]

PwJob(n, u, isBg) ==
    [id |-> n, url |-> u, bg |-> isBg, pc |-> IF isBg THEN "tick" ELSE "fetch",
     failures |-> 0, attempts |-> 0, wakeAt |-> 0]

\* get(args) -> _getCacheIfNeeded(url).  On a miss the caller waits for
\* _fetchRefreshedCacheItem; otherwise it gets val, after
\* _unwindMarkAndRefreshItem marked the url and queued the refresh with
\* process.nextTick when the entry is expired and no refresh is marked.
PwGet(u) ==
    LET n == Len(pwCalls) + 1 IN
    /\ Len(pwCalls) < MaxPwCalls
    /\ IF ~PwHas(u)
       THEN /\ pwCalls' = Append(pwCalls, PwCallRecord(u))
            /\ pwJobs' = pwJobs \cup {PwJob(n, u, FALSE)}
            /\ UNCHANGED pwProcessMap
       ELSE /\ pwCalls' = Append(pwCalls, [PwCallRecord(u) EXCEPT
                                 !.state = "returned", !.value = pwBackend[u].val])
            /\ IF PwRequireRefresh(u) /\ ~PwIsBeingRefreshed(u)
               THEN /\ pwProcessMap' = pwProcessMap \cup {u}
                    /\ pwJobs' = pwJobs \cup {PwJob(n, u, TRUE)}
               ELSE UNCHANGED <<pwProcessMap, pwJobs>>
    /\ UNCHANGED <<now, pwBackend, outsidePw>>

\* process.nextTick(() => this._markAndRefreshItemAsync(url)): the refresh
\* calls _fetchRefreshedCacheItem, which calls _fetchUrl
PwNextTick(j) ==
    /\ j.pc = "tick"
    /\ pwJobs' = (pwJobs \ {j}) \cup {[j EXCEPT !.pc = "fetch"]}
    /\ UNCHANGED <<now, pwBackend, pwProcessMap, pwCalls, outsidePw>>

\* _fetchRefreshedCacheItem after await this._fetchUrl(url) resolved with v:
\* this._cache.add(url, response); return response
PwFetched(j, v) ==
    /\ pwBackend' = PwAdd(j.url, v)
    /\ IF j.bg
       THEN UNCHANGED pwCalls
       ELSE pwCalls' = [pwCalls EXCEPT ![j.id].state = "returned", ![j.id].value = v]

\* _fetchRefreshedCacheItem after await this._fetchUrl(url) rejected:
\* catch (err) { log; return null }
PwFetchGaveUp(j) ==
    /\ UNCHANGED pwBackend
    /\ IF j.bg
       THEN UNCHANGED pwCalls
       ELSE pwCalls' = [pwCalls EXCEPT ![j.id].state = "returned", ![j.id].value = 0]

\* What a job is after its _fetchRefreshedCacheItem returned: a first-miss
\* job is over, a background one still has to clear the mark.
PwAfterFetch(j) ==
    LET k == [j EXCEPT !.attempts = @ + 1] IN
    IF j.bg THEN (pwJobs \ {j}) \cup {[k EXCEPT !.pc = "unmark"]} ELSE pwJobs \ {j}

\* _fetchUrl from the point where fetch(url).then(res => res.json()) settles.
\* failures is the local of this _fetchUrl call: the catch handler counts it
\* up, throws when it exceeds 3, and otherwise sleeps 1000 * failures ms.
PwFetchSettles(j, r) ==
    /\ j.pc = "fetch"
    /\ j.attempts < MaxPwAttempts
    /\ IF ~PwFetchRejects(r)
       THEN /\ PwFetched(j, PwBody(j.id, r))
            /\ pwJobs' = PwAfterFetch(j)
       ELSE IF j.failures + 1 > PwMaxFailures
       THEN /\ PwFetchGaveUp(j)
            /\ pwJobs' = PwAfterFetch(j)
       ELSE /\ pwJobs' = (pwJobs \ {j}) \cup
                   {[j EXCEPT !.pc = "sleep", !.attempts = @ + 1,
                              !.failures = j.failures + 1,
                              !.wakeAt = now + PwBackoffMs * (j.failures + 1)]}
            /\ UNCHANGED <<pwBackend, pwCalls>>
    /\ UNCHANGED <<now, pwProcessMap, outsidePw>>

\* sleepAsync(...).then(() => this._fetchUrl(url)): the retry is a new call
\* of _fetchUrl, whose first statement is let failures = 0
PwTimerFires(j) ==
    /\ j.pc = "sleep"
    /\ now >= j.wakeAt
    /\ pwJobs' = (pwJobs \ {j}) \cup {[j EXCEPT !.pc = "fetch", !.failures = 0,
                                                !.wakeAt = 0]}
    /\ UNCHANGED <<now, pwBackend, pwProcessMap, pwCalls, outsidePw>>

\* _markAndRefreshItemAsync after its await: this._cache.markBeingRefreshed(url, false)
PwUnmark(j) ==
    /\ j.pc = "unmark"
    /\ pwProcessMap' = pwProcessMap \ {j.url}
    /\ pwJobs' = pwJobs \ {j}
    /\ UNCHANGED <<now, pwBackend, pwCalls, outsidePw>>

PwTick ==
    /\ now + TickMs <= MaxPwTime
    /\ now' = now + TickMs
    /\ UNCHANGED <<cacheVars, connVars, pwVars, parserVars, svcVars, resVars, helperVars>>

PwNext ==
    \/ \E u \in Keys : PwGet(u)
    \/ \E j \in pwJobs : PwNextTick(j)
    \/ \E j \in pwJobs : \E r \in PwResponses : PwFetchSettles(j, r)
    \/ \E j \in pwJobs : PwTimerFires(j)
    \/ \E j \in pwJobs : PwUnmark(j)
    \/ PwTick

SpecPw == Init /\ [][PwNext]_vars

----------------------------------------------------------------------------
(* Properties of the cache *)

CallIds == 1 .. Len(calls)
BgTasks(k) == {t \in tasks : t.bg /\ t.key = k}
WasExpired(c) == c.had /\ c.age > Ttl

\* C1: single flight. For every key at most one background refresh has not
\* finished, so the producer of an expired key is invoked at most once until
\* that refresh settles, however many get calls arrive meanwhile.
C1_SingleFlight == \A k \in Keys : Cardinality(BgTasks(k)) <= 1

\* a refresh is in flight and a later get on the same expired key returned
\* without invoking its producer
C1_Witness ==
    \E t \in tasks : \E i \in CallIds :
        /\ t.bg /\ t.phase = "awaiting"
        /\ i > t.id /\ calls[i].key = t.key
        /\ WasExpired(calls[i]) /\ calls[i].marked /\ ~calls[i].invoked

\* C2: a get that finds an expired entry never waits: it has returned the
\* stored value by the end of the run that made the call, whether it started
\* the refresh or found one in flight.
C2_StaleReadsNeverBlock ==
    \A i \in CallIds :
        WasExpired(calls[i]) =>
            calls[i].state = "returned" /\ calls[i].value = calls[i].stored

\* both kinds of stale read have returned while the refresh is still awaiting
C2_Witness ==
    \E t \in tasks : \E i \in CallIds :
        /\ t.bg /\ t.phase = "awaiting" /\ t.id \in CallIds
        /\ WasExpired(calls[t.id]) /\ calls[t.id].bg /\ calls[t.id].state = "returned"
        /\ i > t.id /\ calls[i].key = t.key /\ calls[i].marked
        /\ calls[i].state = "returned" /\ calls[i].value = calls[t.id].value

\* C3: a get that finds an entry of age at most TTL (TTL included) returns the
\* stored value and does not invoke its producer.
C3_FreshHitNoProducer ==
    \A i \in CallIds :
        (calls[i].had /\ calls[i].age <= Ttl) =>
            /\ ~calls[i].invoked
            /\ calls[i].state = "returned"
            /\ calls[i].value = calls[i].stored

\* a get made when the age of the entry is exactly TTL
C3_Witness ==
    \E i \in CallIds :
        calls[i].had /\ calls[i].age = Ttl /\ ~calls[i].invoked /\ calls[i].state = "returned"

\* C4: a get that finds no entry waits for its producer; when the producer
\* settles, either the value is stored with the current timestamp and returned,
\* or the error reaches the caller and the store is unchanged.
C4_FirstMiss ==
    /\ [](\A i \in CallIds : ~calls[i].had =>
             /\ calls[i].invoked /\ ~calls[i].bg
             /\ (calls[i].state = "waiting" <=> \E t \in tasks : t.id = i))
    /\ [][\A t \in tasks : (~t.bg /\ t \notin tasks') =>
             /\ calls[t.id].state = "waiting"
             /\ \/ /\ calls'[t.id].state = "returned"
                   /\ t.key \in DOMAIN store'
                   /\ store'[t.key] = [timestamp |-> now, value |-> calls'[t.id].value]
                \/ /\ calls'[t.id].state = "threw"
                   /\ store' = store]_vars

\* one first miss failed and left no entry, another one stored what it returned
C4_Witness ==
    \E i, j \in CallIds :
        /\ ~calls[i].had /\ calls[i].state = "threw" /\ ~Has(calls[i].key)
        /\ ~calls[j].had /\ calls[j].state = "returned"
        /\ Has(calls[j].key) /\ store[calls[j].key].value = calls[j].value

\* C5: when the producer of a background refresh settles, a success replaces
\* the entry by the new value with the current timestamp, a failure leaves the
\* store as it was, and no caller sees either: no call changes, and no call
\* that found an entry ever throws.
C5_RefreshOutcome ==
    /\ [](\A i \in CallIds : calls[i].had => calls[i].state = "returned")
    /\ [][\A t \in tasks : (t.bg /\ t.phase = "awaiting" /\ t \notin tasks') =>
             /\ calls' = calls
             /\ \/ /\ [t EXCEPT !.phase = "resolved"] \in tasks'
                   /\ store'[t.key] = [timestamp |-> now, value |-> t.id]
                   /\ \A k \in DOMAIN store \ {t.key} : store'[k] = store[k]
                \/ /\ [t EXCEPT !.phase = "rejected"] \in tasks'
                   /\ store' = store]_vars

\* a refresh failed on one key while the stale entry stayed, and a refresh
\* replaced the entry of a key after its entry had aged
C5_Witness ==
    /\ \E t \in tasks : t.bg /\ t.phase = "rejected" /\ Has(t.key)
                        /\ store[t.key].value # t.id
    /\ \E k \in Keys : Has(k) /\ store[k].value = lastRefresh[k].value
                       /\ store[k].timestamp > 0

C7_NeverEvicts == [][\A k \in DOMAIN store : k \in DOMAIN store']_vars

\* an expired entry is still there after a failed refresh
C7_Witness ==
    \E k \in Keys :
        Has(k) /\ IsExpired(store[k].timestamp) /\ lastRefresh[k].status = "failed"

----------------------------------------------------------------------------
(* Properties of the connector's producer *)

FetchIds == DOMAIN fetches
Settling(id) == id \in FetchIds /\ fetches[id].pc = "fetch" /\ fetches'[id].pc # "fetch"

\* C8: _fetchWithRetry makes at most 4 HTTP attempts; an attempt that ends in
\* a transport error or a non-2xx status is a failed one: after fewer than 4
\* the producer sleeps, after the 4th it has rejected, and it rejects in no
\* other case; the sleep after the k-th failed attempt lasts 1000 * k ms and
\* the next attempt starts only when it is over; the rejection reaches the
\* cache as the producer's failure.
C8_RetryPolicy ==
    /\ [](\A id \in FetchIds :
            LET f == fetches[id] IN
            /\ f.attempts <= 4
            /\ f.outcome = "resolved" => f.lastResult = "ok"
            /\ f.outcome = "rejected" => f.attempts = 4 /\ f.upFailures = 4
            /\ f.lastResult \in {"http", "transport"} =>
                  \/ f.attempts < 4 /\ f.pc = "sleep"
                  \/ f.attempts = 4 /\ f.pc = "done" /\ f.outcome = "rejected")
    /\ [][\A id \in FetchIds :
            /\ (Settling(id) /\ fetches'[id].pc = "sleep") =>
                  fetches'[id].wakeAt = now + 1000 * fetches'[id].attempts
            /\ (fetches[id].pc = "sleep" /\ fetches'[id].pc = "fetch") =>
                  now >= fetches[id].wakeAt
            /\ (Settling(id) /\ fetches'[id].outcome = "rejected") =>
                  \/ calls'[id].state = "threw"
                  \/ \E t \in tasks' : t.id = id /\ t.bg /\ t.phase = "rejected"]_vars

\* a producer gave up after four failed attempts, 1000 + 2000 + 3000 ms of
\* sleep behind it, and its first-miss caller got the error
C8_Witness ==
    \E id \in FetchIds :
        /\ fetches[id].outcome = "rejected" /\ fetches[id].attempts = 4
        /\ calls[id].state = "threw" /\ now >= 6000

\* C9: a connector get on an uncached URL whose upstream fails twice is not
\* over after the second failure, and when the upstream then succeeds the
\* call has made exactly three HTTP attempts, returns the body, and the step
\* that ends it writes exactly one store entry, the one of its URL.
C9_FailTwiceThenSucceed ==
    /\ [](\A id \in FetchIds :
            LET f == fetches[id] IN
            ~calls[id].had =>
               /\ (f.upFailures = 2 /\ f.attempts = 2) =>
                     f.pc # "done" /\ calls[id].state = "waiting"
               /\ (f.upFailures = 2 /\ f.outcome = "resolved") =>
                     /\ f.attempts = 3
                     /\ calls[id].state = "returned" /\ calls[id].value = id)
    /\ [][\A id \in FetchIds :
            (/\ Settling(id) /\ ~calls[id].had
             /\ fetches'[id].upFailures = 2 /\ fetches'[id].outcome = "resolved") =>
               /\ DOMAIN store' = DOMAIN store \cup {fetches[id].url}
               /\ store'[fetches[id].url] = [timestamp |-> now, value |-> id]
               /\ \A k \in DOMAIN store \ {fetches[id].url} : store'[k] = store[k]]_vars

\* a first miss came back after two failures and a success, and its body is
\* the stored value of the URL
C9_Witness ==
    \E id \in FetchIds :
        /\ ~calls[id].had /\ fetches[id].outcome = "resolved"
        /\ fetches[id].upFailures = 2 /\ fetches[id].attempts = 3
        /\ calls[id].state = "returned"
        /\ Has(fetches[id].url) /\ store[fetches[id].url].value = calls[id].value

----------------------------------------------------------------------------
(* Properties of the server PwConnector *)

PwCallIds == 1 .. Len(pwCalls)

\* C10: in the server PwConnector the body of a non-2xx response is never
\* stored in the cache and never returned by get.
C10_Non2xxNeverStoredOrReturned ==
    /\ \A u \in DOMAIN pwBackend : pwBackend[u].val > 0
    /\ \A i \in PwCallIds : pwCalls[i].state = "returned" => pwCalls[i].value >= 0

----------------------------------------------------------------------------
(* The property parser (WikitextParser, src/unnamed/part_001) and the SMW   *)
(* transformer in front of it.  A JavaScript string is the sequence of its  *)
(* characters, so that the regular expressions match what they match in the *)
(* code.  A scalar is a record [kind, n, s]: a number n or a string s; a    *)
(* property value is a scalar or an array of scalars.                       *)

\* number of properties in a payload
MaxProps == 2
\* number of parseFromSMW calls of the payload under study
MaxParses == 3

Min(S) == CHOOSE x \in S : \A y \in S : x <= y

\* F applied to the value of x, which is computed once
Apply(x, F(_)) == CHOOSE r \in {F(v) : v \in {x}} : TRUE

\* the words the payloads are made of
w_oral == <<"o", "r", "a", "l">>
w_Smoked == <<"S", "m", "o", "k", "e", "d">>
w_foo == <<"f", "o", "o">>
w_common == <<"c", "o", "m", "m", "o", "n">>
w_threshold == <<"t", "h", "r", "e", "s", "h", "o", "l", "d">>
w_onset == <<"o", "n", "s", "e", "t">>
w_min == <<"m", "i", "n">>
w_max == <<"m", "a", "x">>
w_full == <<"f", "u", "l", "l">>
w_Time == <<"T", "i", "m", "e">>
w_to == <<"t", "o">>
w_roa == <<"r", "o", "a">>
w_roas == <<"r", "o", "a", "s">>
w_name == <<"n", "a", "m", "e">>
w_dose == <<"d", "o", "s", "e">>
w_time == <<"t", "i", "m", "e">>
w_units == <<"u", "n", "i", "t", "s">>
w_duration == <<"d", "u", "r", "a", "t", "i", "o", "n">>
w_bioavailability ==
    <<"b", "i", "o", "a", "v", "a", "i", "l", "a", "b", "i", "l", "i", "t", "y">>
w_tolerance == <<"t", "o", "l", "e", "r", "a", "n", "c", "e">>
w_effect == <<"e", "f", "f", "e", "c", "t">>
w_effects == <<"e", "f", "f", "e", "c", "t", "s">>
w_cross_tolerance ==
    <<"c", "r", "o", "s", "s", "-", "t", "o", "l", "e", "r", "a", "n", "c", "e">>
w_crossTolerances ==
    <<"c", "r", "o", "s", "s", "T", "o", "l", "e", "r", "a", "n", "c", "e", "s">>
w_MDAT == <<"M", "D", "A", "T">>

RECURSIVE JoinFrom(_, _, _)
\* parts[i], sep, parts[i + 1], sep, ... up to the last part
JoinFrom(parts, i, sep) ==
    IF i > Len(parts) THEN <<>>
    ELSE IF i = Len(parts) THEN parts[i]
    ELSE parts[i] \o sep \o JoinFrom(parts, i + 1, sep)

\* Array.prototype.join
JoinWith(parts, sep) == Apply(parts, LAMBDA ps : JoinFrom(ps, 1, sep))

\* a property name written as its parts joined by "_"
Name(parts) == JoinWith(parts, <<"_">>)

\* the segments of s between the separator positions hits
Segments(s, hits) ==
    LET at(k) == IF k = 0 THEN 0
                 ELSE IF k = Cardinality(hits) + 1 THEN Len(s) + 1
                 ELSE CHOOSE p \in hits : Cardinality({q \in hits : q < p}) = k - 1
    IN  [k \in 1 .. Cardinality(hits) + 1 |-> SubSeq(s, at(k - 1) + 1, at(k) - 1)]

\* String.prototype.split(c) for a one-character separator
Split(s, c) ==
    Apply(s, LAMBDA t : Apply({p \in 1 .. Len(t) : t[p] = c}, LAMBDA hits : Segments(t, hits)))

\* the characters of segs[a] _ ... _ segs[b]
JoinRange(segs, a, b) == JoinWith(SubSeq(segs, a, b), <<"_">>)

\* pat occurs in s at position p
StartsAt(s, p, pat) ==
    /\ p + Len(pat) - 1 <= Len(s)
    /\ \A i \in 1 .. Len(pat) : s[p + i - 1] = pat[i]

ToLowerCaseChar(c) ==
    CASE c = "S" -> "s"
      [] c = "T" -> "t"
      [] c = "M" -> "m"
      [] c = "D" -> "d"
      [] c = "A" -> "a"
      [] OTHER -> c

\* String.prototype.toLowerCase on the alphabet of the payloads
ToLowerCase(s) == [i \in 1 .. Len(s) |-> ToLowerCaseChar(s[i])]

Num(k) == [kind |-> "number", n |-> k, s |-> <<>>]
Str(t) == [kind |-> "string", n |-> 0, s |-> t]
\* a property value: one scalar, or an array of scalars
Scalar(x) == [arr |-> FALSE, items |-> <<x>>]
Array(xs) == [arr |-> TRUE, items |-> xs]

----------------------------------------------------------------------------
(* SMWTransformer (legacy/variant2 services/psychonautwiki/transformer.js)  *)

DigitValue(c) ==
    CASE c = "0" -> 0 [] c = "1" -> 1 [] c = "2" -> 2 [] c = "3" -> 3
      [] c = "4" -> 4 [] c = "5" -> 5 [] c = "6" -> 6 [] c = "7" -> 7
      [] c = "8" -> 8 [] c = "9" -> 9

RECURSIVE ParseDigits(_, _)
\* the number written by the first n digits of item
ParseDigits(item, n) ==
    IF n = 0 THEN 0 ELSE 10 * ParseDigits(item, n - 1) + DigitValue(item[n])

\* parseFloat on a string of decimal digits
ParseFloat(item) == ParseDigits(item, Len(item))

\* prop.replace(/#1?0#/, ''): the first "#0#" or "#10#" is cut out
StripSMWProp(prop) ==
    LET short == <<"#", "0", "#">>
        long == <<"#", "1", "0", "#">>
        hits == {p \in 1 .. Len(prop) : StartsAt(prop, p, short) \/ StartsAt(prop, p, long)}
    IN  IF hits = {} THEN prop
        ELSE LET p == Min(hits)
                 n == IF StartsAt(prop, p, short) THEN 3 ELSE 4
             IN  SubSeq(prop, 1, p - 1) \o SubSeq(prop, p + n, Len(prop))

\* _processDataItem({ type, item })
ProcessDataItem(d) ==
    CASE d.type = 1 -> Num(ParseFloat(d.item))
      [] d.type = 9 -> Str(StripSMWProp(d.item))
      [] OTHER -> Str(d.item)

\* _integrateDataItems: processed.length === 1 ? processed[0] : processed
IntegrateDataItems(items) ==
    LET processed == [i \in 1 .. Len(items) |-> ProcessDataItem(items[i])]
    IN  IF Len(processed) = 1 THEN Scalar(processed[1]) ELSE Array(processed)

\* if (property.startsWith('_')) return
IsInternalProp(property) == Len(property) > 0 /\ property[1] = "_"

RECURSIVE ParseItemsFrom(_, _)
ParseItemsFrom(itemList, i) ==
    IF i > Len(itemList) THEN <<>>
    ELSE (IF IsInternalProp(itemList[i].property) THEN <<>>
          ELSE <<[propName |-> itemList[i].property,
                  prop |-> IntegrateDataItems(itemList[i].dataitem)]>>)
             \o ParseItemsFrom(itemList, i + 1)

\* parseItemList: [property, { type, prop }] for every property that is kept
ParseItemList(itemList) == ParseItemsFrom(itemList, 1)

----------------------------------------------------------------------------
(* WikitextParser: the regular expressions of REGEX.  Each operator takes   *)
(* the lowercased property name and gives the captured groups rx[1..], or   *)
(* the empty sequence when the expression does not match.  A lazy group     *)
(* followed by "_" captures up to the next underscore; the last group       *)
(* captures the rest up to the anchored suffix.                             *)

CapturesThree(propName, suffix) ==
    Apply(Split(propName, "_"), LAMBDA g :
        IF Len(g) >= 4 /\ g[Len(g)] = suffix
        THEN <<g[1], g[2], JoinRange(g, 3, Len(g) - 1)>>
        ELSE <<>>)

CapturesTwo(propName, suffix) ==
    Apply(Split(propName, "_"), LAMBDA g :
        IF Len(g) >= 3 /\ g[Len(g)] = suffix
        THEN <<g[1], JoinRange(g, 2, Len(g) - 1)>>
        ELSE <<>>)

\* range_dur: /(.*?)_(.*?)_(.*?)_time$/i
range_dur(propName) == CapturesThree(propName, w_time)
\* range_dose: /(.*?)_(.*?)_(.*?)_dose$/i
range_dose(propName) == CapturesThree(propName, w_dose)
\* def_dose: /(.*?)_(.*?)_dose$/i
def_dose(propName) == CapturesTwo(propName, w_dose)
\* def_bioavailability: /(.*?)_(.*?)_bioavailability$/i
def_bioavailability(propName) == CapturesTwo(propName, w_bioavailability)

\* dose_units: /(.*?)_dose_units$/i
dose_units(propName) ==
    Apply(Split(propName, "_"), LAMBDA g :
        IF Len(g) >= 3 /\ g[Len(g) - 1] = w_dose /\ g[Len(g)] = w_units
        THEN <<JoinRange(g, 1, Len(g) - 2)>>
        ELSE <<>>)

\* roa_time_units: /(.*?)_(.*?)_time_units$/i
roa_time_units(propName) ==
    Apply(Split(propName, "_"), LAMBDA g :
        IF Len(g) >= 4 /\ g[Len(g) - 1] = w_time /\ g[Len(g)] = w_units
        THEN <<g[1], JoinRange(g, 2, Len(g) - 2)>>
        ELSE <<>>)

\* meta_tolerance_time: /Time_to_(.*?)_tolerance$/i, not anchored on the left
w_time_to_ == Name(<<w_time, w_to, <<>>>>)
w__tolerance == Name(<<<<>>, w_tolerance>>)

meta_tolerance_time(propName) ==
    LET sufAt == Len(propName) - Len(w__tolerance) + 1
    IN  Apply({p \in 1 .. Len(propName) :
                  StartsAt(propName, p, w_time_to_) /\ p + Len(w_time_to_) <= sufAt},
              LAMBDA starts :
        IF sufAt >= 1 /\ StartsAt(propName, sufAt, w__tolerance) /\ starts # {}
        THEN <<SubSeq(propName, Min(starts) + Len(w_time_to_), sufAt - 1)>>
        ELSE <<>>)

\* The shortest [[...]] that starts at position p of s ends at LinkEnd(s, p);
\* 0 when none starts there.
LinkEnd(s, p) ==
    IF ~StartsAt(s, p, <<"[", "[">>) THEN 0
    ELSE LET ends == {q \in p + 2 .. Len(s) - 1 : s[q] = "]" /\ s[q + 1] = "]"}
         IN  IF ends = {} THEN 0 ELSE Min(ends) + 1

\* RegExp.prototype.exec of /\[\[(.*?)]]/ on s, the search starting after
\* lastIndex characters: the match s[from..to] and the lastIndex a global
\* expression is left with (the end of the match, or 0 when there is none).
WtPropExec(s, lastIndex) ==
    Apply({p \in lastIndex + 1 .. Len(s) : LinkEnd(s, p) > 0}, LAMBDA starts :
        IF starts = {}
        THEN [found |-> FALSE, from |-> 0, to |-> 0, lastIndex |-> 0]
        ELSE [found |-> TRUE, from |-> Min(starts), to |-> LinkEnd(s, Min(starts)),
              lastIndex |-> LinkEnd(s, Min(starts))])

RECURSIVE MatchFrom(_, _)
MatchFrom(s, i) ==
    Apply(WtPropExec(s, i), LAMBDA r :
        IF ~r.found THEN <<>>
        ELSE <<SubSeq(s, r.from, r.to)>> \o MatchFrom(s, r.lastIndex))

\* prop.match(REGEX.wt_prop_glob): every match, from the start of the string
\* whatever lastIndex was; lastIndex is 0 afterwards
StringMatch(s) == MatchFrom(s, 0)

\* REGEX.wt_prop.exec(item)[1]
WtPropGroup(item) ==
    Apply(WtPropExec(item, 0), LAMBDA r : SubSeq(item, r.from + 2, r.to - 2))

DigitChar(d) ==
    CASE d = 0 -> "0" [] d = 1 -> "1" [] d = 2 -> "2" [] d = 3 -> "3"
      [] d = 4 -> "4" [] d = 5 -> "5" [] d = 6 -> "6" [] d = 7 -> "7"
      [] d = 8 -> "8" [] d = 9 -> "9"

RECURSIVE Digits(_)
Digits(n) == IF n < 10 THEN <<DigitChar(n)>> ELSE Digits(n \div 10) \o <<DigitChar(n % 10)>>

ToStringScalar(x) == IF x.kind = "number" THEN Digits(x.n) ELSE x.s

\* the string a value is coerced to by RegExp.prototype.test: an array is
\* joined with ","
CoerceToString(prop) ==
    IF prop.arr
    THEN JoinWith([i \in 1 .. Len(prop.items) |-> ToStringScalar(prop.items[i])], <<",">>)
    ELSE ToStringScalar(prop.items[1])

\* typeof prop === 'string', that is prop.match exists
IsString(prop) == ~prop.arr /\ prop.items[1].kind = "string"

\* _mapCrossTolerance(prop): REGEX.wt_prop_glob.test(prop) starts at the
\* expression's lastIndex and leaves it at the end of the match it finds;
\* prop.match resets it; a prop that is not a string has no match method and
\* the call throws with lastIndex left where test put it.
MapCrossTolerance(prop, lastIndex) ==
    LET target == <<w_crossTolerances>>
    IN  Apply(Apply(CoerceToString(prop), LAMBDA str : WtPropExec(str, lastIndex)), LAMBDA t :
        IF ~t.found
        THEN [threw |-> FALSE, target |-> target, val |-> Array(<<>>), lastIndex |-> 0]
        ELSE IF ~IsString(prop)
        THEN [threw |-> TRUE, target |-> target, val |-> Array(<<>>),
              lastIndex |-> t.lastIndex]
        ELSE Apply(StringMatch(prop.items[1].s), LAMBDA matches :
                 [threw |-> FALSE, target |-> target,
                  val |-> Array([i \in 1 .. Len(matches) |-> Str(WtPropGroup(matches[i]))]),
                  lastIndex |-> 0]))

----------------------------------------------------------------------------
(* WikitextParser: the record under construction (procPropMap) is the set  *)
(* of its leaves, each a path and the value stored there, together with the *)
(* keys of its `roa` object in the order JavaScript enumerates them, which  *)
(* is the order in which they were first written.                           *)

EmptyRecord == [leaves |-> {}, roaKeys |-> <<>>]

IsPrefix(p, q) == Len(p) <= Len(q) /\ SubSeq(q, 1, Len(p)) = p

InSeq(x, xs) == \E i \in 1 .. Len(xs) : xs[i] = x

\* _.set(map, path, value): what was stored at the path, below it, or at a
\* scalar on the way to it, is replaced
Set(map, path, value) ==
    [leaves |-> {e \in map.leaves : ~IsPrefix(e.path, path) /\ ~IsPrefix(path, e.path)}
                    \cup {[path |-> path, val |-> value]},
     roaKeys |-> IF Len(path) >= 2 /\ path[1] = w_roa /\ ~InSeq(path[2], map.roaKeys)
                 THEN Append(map.roaKeys, path[2])
                 ELSE map.roaKeys]

w_class == <<"c", "l", "a", "s", "s">>
w_psychoactive == <<"p", "s", "y", "c", "h", "o", "a", "c", "t", "i", "v", "e">>
w_chemical == <<"c", "h", "e", "m", "i", "c", "a", "l">>
w_commonNames == <<"c", "o", "m", "m", "o", "n", "N", "a", "m", "e", "s">>
w_common_name == Name(<<w_common, w_name>>)
w_psychoactive_class == Name(<<w_psychoactive, w_class>>)
w_chemical_class == Name(<<w_chemical, w_class>>)
w_toxicity == <<"t", "o", "x", "i", "c", "i", "t", "y">>
w_uncertaininteraction ==
    <<"u", "n", "c", "e", "r", "t", "a", "i", "n", "i", "n", "t", "e", "r", "a", "c", "t", "i", "o", "n">>
w_unsafeinteraction ==
    <<"u", "n", "s", "a", "f", "e", "i", "n", "t", "e", "r", "a", "c", "t", "i", "o", "n">>
w_dangerousinteraction ==
    <<"d", "a", "n", "g", "e", "r", "o", "u", "s", "i", "n", "t", "e", "r", "a", "c", "t", "i", "o", "n">>
w_uncertainInteractions ==
    <<"u", "n", "c", "e", "r", "t", "a", "i", "n", "I", "n", "t", "e", "r", "a", "c", "t", "i", "o", "n", "s">>
w_unsafeInteractions ==
    <<"u", "n", "s", "a", "f", "e", "I", "n", "t", "e", "r", "a", "c", "t", "i", "o", "n", "s">>
w_dangerousInteractions ==
    <<"d", "a", "n", "g", "e", "r", "o", "u", "s", "I", "n", "t", "e", "r", "a", "c", "t", "i", "o", "n", "s">>

\* `roa.${rx[1]}.dose.${rx[3]}.${rx[2]}` and the same for duration
RangePath(rx, kind) == <<w_roa, rx[1], kind, rx[3], rx[2]>>

\* The path the first matching expression of _dispatchProperty writes to, in
\* the order the code tries them; the empty path when none matches.
RegexTarget(propName) ==
    IF range_dur(propName) # <<>>
    THEN Apply(range_dur(propName), LAMBDA rx : RangePath(rx, w_duration))
    ELSE IF range_dose(propName) # <<>>
    THEN Apply(range_dose(propName), LAMBDA rx : RangePath(rx, w_dose))
    ELSE IF def_dose(propName) # <<>>
    THEN Apply(def_dose(propName), LAMBDA rx : <<w_roa, rx[1], w_dose, rx[2]>>)
    ELSE IF def_bioavailability(propName) # <<>>
    THEN Apply(def_bioavailability(propName), LAMBDA rx :
             <<w_roa, rx[1], w_bioavailability, rx[2]>>)
    ELSE IF dose_units(propName) # <<>>
    THEN <<w_roa, dose_units(propName)[1], w_dose, w_units>>
    ELSE IF roa_time_units(propName) # <<>>
    THEN Apply(roa_time_units(propName), LAMBDA rx :
             <<w_roa, rx[1], w_duration, rx[2], w_units>>)
    ELSE IF meta_tolerance_time(propName) # <<>>
    THEN <<w_tolerance, meta_tolerance_time(propName)[1]>>
    ELSE <<>>

\* this._flatMetaProps, for the properties of the payloads
FlatMetaProps(propName) ==
    CASE propName = w_effect -> <<w_effects>>
      [] propName = w_common_name -> <<w_commonNames>>
      [] propName = w_uncertaininteraction -> <<w_uncertainInteractions>>
      [] propName = w_unsafeinteraction -> <<w_unsafeInteractions>>
      [] propName = w_dangerousinteraction -> <<w_dangerousInteractions>>
      [] OTHER -> <<>>

\* p.replace(/#$/, '').replace(/_/g, ' ')
CleanClassName(p) ==
    LET cut == IF Len(p) > 0 /\ p[Len(p)] = "#" THEN SubSeq(p, 1, Len(p) - 1) ELSE p
    IN  [i \in 1 .. Len(cut) |-> IF cut[i] = "_" THEN " " ELSE cut[i]]

\* _mapClass(target, prop): [].concat(prop).map(p => p.replace(...)); replace
\* is missing on a number and the call throws
MapClass(target, prop, lastIndex) ==
    IF \E i \in 1 .. Len(prop.items) : prop.items[i].kind # "string"
    THEN [threw |-> TRUE, target |-> target, val |-> Array(<<>>), lastIndex |-> lastIndex]
    ELSE [threw |-> FALSE, target |-> target,
          val |-> Array([i \in 1 .. Len(prop.items) |-> Str(CleanClassName(prop.items[i].s))]),
          lastIndex |-> lastIndex]

\* prop => (['toxicity', [].concat(prop)])
MapToxicity(prop, lastIndex) ==
    [threw |-> FALSE, target |-> <<w_toxicity>>, val |-> Array(prop.items),
     lastIndex |-> lastIndex]

\* this._mappedMetaProps.has(propName), for the properties of the payloads
IsMappedMetaProp(propName) ==
    propName \in {w_cross_tolerance, w_toxicity, w_psychoactive_class, w_chemical_class,
                  w_common_name}

\* this._mappedMetaProps.get(propName)(propValue)
MappedMetaProp(propName, prop, lastIndex) ==
    CASE propName = w_cross_tolerance -> MapCrossTolerance(prop, lastIndex)
      [] propName = w_toxicity -> MapToxicity(prop, lastIndex)
      [] propName = w_psychoactive_class -> MapClass(<<w_class, w_psychoactive>>, prop, lastIndex)
      [] propName = w_chemical_class -> MapClass(<<w_class, w_chemical>>, prop, lastIndex)
      [] propName = w_common_name -> MapClass(<<w_commonNames>>, prop, lastIndex)

\* if (!propValue): 0 and the empty string are falsy, an array never is
IsFalsy(prop) ==
    /\ ~prop.arr
    /\ \/ prop.items[1].kind = "number" /\ prop.items[1].n = 0
       \/ prop.items[1].kind = "string" /\ prop.items[1].s = <<>>

\* const forceArray = val => Array.isArray(val) ? val : [val]
ForceArray(val) == IF val.arr THEN val ELSE Array(val.items)

RECURSIVE ReplaceLinks(_)
\* every [[link]] of the text replaced by what is between its brackets
ReplaceLinks(text) ==
    Apply(WtPropExec(text, 0), LAMBDA r :
        IF ~r.found THEN text
        ELSE Apply(SubSeq(text, 1, r.from - 1) \o SubSeq(text, r.from + 2, r.to - 2)
                       \o SubSeq(text, r.to + 1, Len(text)),
                   LAMBDA out : ReplaceLinks(out)))

\* _sanitizeText(text), for text with no "|" and no <sub> or <sup> tag, as
\* the values of the payloads are
SanitizeText(item) ==
    IF item.kind # "string" \/ item.s = <<>> THEN item ELSE Str(ReplaceLinks(item.s))

\* _sanitizeIfNeeded(propName, propValue), for the targets of the payloads
SanitizeIfNeeded(target, prop) ==
    IF IsFalsy(prop) THEN prop
    ELSE IF target \in {<<w_effects>>, <<w_commonNames>>, <<w_uncertainInteractions>>,
                        <<w_unsafeInteractions>>, <<w_dangerousInteractions>>}
    THEN ForceArray(prop)
    ELSE IF target = <<w_toxicity>>
    THEN [prop EXCEPT !.items = [i \in DOMAIN prop.items |-> SanitizeText(prop.items[i])]]
    ELSE prop

\* _dispatchProperty(map, propName, propValue).  st is the record under
\* construction and the lastIndex of REGEX.wt_prop_glob.
DispatchProperty(st, propName, propValue) ==
    Apply(RegexTarget(propName), LAMBDA target :
        IF target # <<>>
        THEN [map |-> Set(st.map, target, propValue), lastIndex |-> st.lastIndex]
        ELSE LET flat == FlatMetaProps(propName)
                 m1 == IF flat # <<>>
                       THEN Set(st.map, flat, SanitizeIfNeeded(flat, propValue))
                       ELSE st.map
             IN  IF ~IsMappedMetaProp(propName)
                 THEN [map |-> m1, lastIndex |-> st.lastIndex]
                 ELSE Apply(MappedMetaProp(propName, propValue, st.lastIndex), LAMBDA r :
                          IF r.threw
                          THEN [map |-> Set(m1, <<propName>>,
                                            SanitizeIfNeeded(<<propName>>, propValue)),
                                lastIndex |-> r.lastIndex]
                          ELSE [map |-> Set(m1, r.target, SanitizeIfNeeded(r.target, r.val)),
                                lastIndex |-> r.lastIndex]))

RECURSIVE DispatchFrom(_, _, _)
DispatchFrom(st, props, i) ==
    IF i > Len(props) THEN st
    ELSE Apply(Apply(ToLowerCase(props[i].propName), LAMBDA propName :
                   DispatchProperty(st, propName, props[i].prop)),
               LAMBDA next : DispatchFrom(next, props, i + 1))

\* propSet[1].forEach(([_propName, { prop }]) => ...)
DispatchAll(st, props) == DispatchFrom(st, props, 1)

\* the leaves of map.roa[key], their paths relative to it
RoaEntry(map, key) ==
    {[path |-> SubSeq(e.path, 3, Len(e.path)), val |-> e.val] :
        e \in {x \in map.leaves : Len(x.path) >= 3 /\ x.path[1] = w_roa /\ x.path[2] = key}}

RECURSIVE MergeNamesFrom(_, _, _)
MergeNamesFrom(map, keys, i) ==
    IF i > Len(keys) THEN map
    ELSE Apply(Set(map, <<w_roa, keys[i], w_name>>, Scalar(Str(keys[i]))),
               LAMBDA next : MergeNamesFrom(next, keys, i + 1))

\* _.merge(_.get(rawROAMap, key), { name: key }) for every key: the entry of
\* the keyed map itself gets the name
MergeNames(map, keys) == MergeNamesFrom(map, keys, 1)

\* the entries in reverse order of the keys
MappedROAsReversed(map) ==
    [i \in 1 .. Len(map.roaKeys) |-> RoaEntry(map, map.roaKeys[Len(map.roaKeys) + 1 - i])]
\* _.chain(rawROAMap).keys().map(key => _.merge(...)).value()
MappedROAs(map) ==
    [i \in 1 .. Len(map.roaKeys) |-> RoaEntry(map, map.roaKeys[i])]

\* _processProperties(propSet): the record, and the lastIndex the call leaves
ProcessProperties(props, lastIndex) ==
    Apply(DispatchAll([map |-> EmptyRecord, lastIndex |-> lastIndex], props), LAMBDA st :
        Apply(MergeNames(st.map, st.map.roaKeys), LAMBDA named :
            [record |-> [leaves |-> named.leaves, roaKeys |-> named.roaKeys,
                         roas |-> MappedROAs(named)],
             lastIndex |-> st.lastIndex]))

\* parseFromSMW(obj): this._processProperties(this._smwTransformer.parse(obj))
ParseFromSMWResult(data, lastIndex) ==
    Apply(ParseItemList(data), LAMBDA props : ProcessProperties(props, lastIndex))

----------------------------------------------------------------------------
(* The payloads: query.data of a browsebysubject answer, a list of          *)
(* {property, dataitem: [{type, item}]}.  Values stored under `roa` are      *)
(* single numbers or strings; ROA names are words, none of them a number.   *)

LinkA == <<"[", "[", "a", "]", "]">>

PropOralCommonMin ==
    [property |-> Name(<<w_oral, w_common, w_min, w_dose>>),
     dataitem |-> <<[type |-> 1, item |-> <<"1", "0">>]>>]
PropOralCommonMax ==
    [property |-> Name(<<w_oral, w_common, w_max, w_dose>>),
     dataitem |-> <<[type |-> 1, item |-> <<"2", "0">>]>>]
PropOralDoseUnits ==
    [property |-> Name(<<w_oral, w_dose, w_units>>),
     dataitem |-> <<[type |-> 2, item |-> <<"m", "g">>]>>]
PropSmokedThreshold ==
    [property |-> Name(<<w_Smoked, w_threshold, w_dose>>),
     dataitem |-> <<[type |-> 1, item |-> <<"5">>]>>]
PropFooOnsetMin ==
    [property |-> Name(<<w_foo, w_onset, w_min, w_time>>),
     dataitem |-> <<[type |-> 1, item |-> <<"1">>]>>]
PropTimeToFull ==
    [property |-> Name(<<w_Time, w_to, w_full, w_tolerance>>),
     dataitem |-> <<[type |-> 2, item |-> <<"3", "d">>]>>]
PropEffect ==
    [property |-> w_effect,
     dataitem |-> <<[type |-> 9, item |-> <<"E", "#", "0", "#">>]>>]
PropPsychoactiveClass ==
    [property |-> w_psychoactive_class,
     dataitem |-> <<[type |-> 2, item |-> <<"s", "_">>]>>]
PropInternal ==
    [property |-> Name(<<<<>>, w_MDAT>>),
     dataitem |-> <<[type |-> 2, item |-> <<"x">>]>>]
\* cross-tolerance with one value, a text with one link
PropCrossToleranceText ==
    [property |-> w_cross_tolerance,
     dataitem |-> <<[type |-> 2, item |-> LinkA]>>]
\* cross-tolerance with two values, the first a link
PropCrossToleranceList ==
    [property |-> w_cross_tolerance,
     dataitem |-> <<[type |-> 2, item |-> LinkA], [type |-> 2, item |-> <<"x">>]>>]

PropPool ==
    {PropOralCommonMin, PropOralCommonMax, PropOralDoseUnits, PropSmokedThreshold,
     PropFooOnsetMin, PropTimeToFull, PropEffect, PropPsychoactiveClass, PropInternal,
     PropCrossToleranceText, PropCrossToleranceList}

Payloads == UNION {[1 .. n -> PropPool] : n \in 1 .. MaxProps}

\* what the same parser instance may be given between two calls
OtherPayloads == {<<PropCrossToleranceText>>, <<PropCrossToleranceList>>}

\* parser.parseFromSMW(res) on the payload under study
ParseFromSMW(data) ==
    /\ Len(parses) < MaxParses
    /\ IF parses = <<>> THEN TRUE ELSE parses[1].payload = data
    /\ \E r \in {ParseFromSMWResult(data, wtPropGlobLastIndex)} :
           /\ parses' = Append(parses, [payload |-> data, record |-> r.record])
           /\ wtPropGlobLastIndex' = r.lastIndex
    /\ UNCHANGED outsideParser

\* parser.parseFromSMW(res) on another payload, whose record is not looked at
ParseOther(data) ==
    /\ wtPropGlobLastIndex' = ParseFromSMWResult(data, wtPropGlobLastIndex).lastIndex
    /\ UNCHANGED <<parses, outsideParser>>

ParseNext ==
    \/ \E data \in Payloads : ParseFromSMW(data)
    \/ \E data \in OtherPayloads : ParseOther(data)

SpecParse == Init /\ [][ParseNext]_vars

----------------------------------------------------------------------------
(* Properties of the parser *)

ParseIds == 1 .. Len(parses)

\* the keys of record.roa
RoaKeysOf(record) ==
    {e.path[2] : e \in {x \in record.leaves : Len(x.path) >= 2 /\ x.path[1] = w_roa}}

HasName(entry) == \E e \in entry : e.path = <<w_name>>
NameOf(entry) == (CHOOSE e \in entry : e.path = <<w_name>>).val.items[1].s

\* the position in the payload of the first property written under roa[key]
FirstWrite(data, key) ==
    LET props == ParseItemList(data)
    IN  Min({i \in 1 .. Len(props) :
                LET t == RegexTarget(ToLowerCase(props[i].propName))
                IN  Len(t) >= 2 /\ t[1] = w_roa /\ t[2] = key})

w_smoked == ToLowerCase(w_Smoked)
ClosedRoaSet ==
    {w_oral, w_smoked,
     <<"s", "u", "b", "l", "i", "n", "g", "u", "a", "l">>,
     <<"b", "u", "c", "c", "a", "l">>,
     <<"i", "n", "s", "u", "f", "f", "l", "a", "t", "e", "d">>,
     <<"r", "e", "c", "t", "a", "l">>,
     <<"t", "r", "a", "n", "s", "d", "e", "r", "m", "a", "l">>,
     <<"s", "u", "b", "c", "u", "t", "a", "n", "e", "o", "u", "s">>,
     <<"i", "n", "t", "r", "a", "m", "u", "s", "c", "u", "l", "a", "r">>,
     <<"i", "n", "t", "r", "a", "v", "e", "n", "o", "u", "s">>}

\* C18: every ROA name of a parsed record, key of `roa` or name of a `roas`
\* entry, is in the closed set; a property of another route is dropped.
C18_RoaNamesInClosedSet ==
    \A c \in ParseIds :
        /\ RoaKeysOf(parses[c].record) \subseteq ClosedRoaSet
        /\ \A i \in 1 .. Len(parses[c].record.roas) :
               NameOf(parses[c].record.roas[i]) \in ClosedRoaSet

\* C19: parsing the same payload again with the same parser gives an equal
\* record, whatever was parsed before; no match state carries over.
C19_ParserIdempotent ==
    \A c, d \in ParseIds : parses[c].record = parses[d].record

\* the path the claim gives a <roa>_<second>_<third>_dose or _time property
ClaimedRangePath(rx, kind) == <<w_roa, rx[1], kind, rx[2], rx[3]>>

ClaimedTarget(propName) ==
    IF range_dur(propName) # <<>>
    THEN ClaimedRangePath(range_dur(propName), w_duration)
    ELSE IF range_dose(propName) # <<>>
    THEN ClaimedRangePath(range_dose(propName), w_dose)
    ELSE RegexTarget(propName)

\* C20: a property <roa>_<intensity>_<bound>_dose is stored at
\* roa[roa].dose[intensity][bound], and <roa>_<stage>_<bound>_time at
\* roa[roa].duration[stage][bound], unless a later property of the payload
\* overwrites it; oral_common_min_dose = 10 and oral_common_max_dose = 20
\* give roa.oral.dose.common = {min: 10, max: 20}.
C20_RangeStoredByIntensityThenBound ==
    \A c \in ParseIds :
        LET props == ParseItemList(parses[c].payload)
            at(i) == ClaimedTarget(ToLowerCase(props[i].propName))
        IN  \A i \in 1 .. Len(props) :
                (/\ range_dur(ToLowerCase(props[i].propName)) # <<>>
                        \/ range_dose(ToLowerCase(props[i].propName)) # <<>>
                 /\ \A j \in i + 1 .. Len(props) :
                        ~IsPrefix(at(i), at(j)) /\ ~IsPrefix(at(j), at(i)))
                    => [path |-> at(i), val |-> props[i].prop] \in parses[c].record.leaves

----------------------------------------------------------------------------
(* PsychonautWikiService (src/unnamed/part_002) on top of the connector,    *)
(* the cache and the parser.  The wiki is fixed: the body of a successful   *)
(* response is a function of the URL, so the number the cache stores for a  *)
(* URL stands for that body.  An argument that is not given is "" or 0,     *)
(* which the code treats like undefined (it only tests truthiness).         *)

\* number of top-level service operations in a behaviour
MaxSvcCalls == 2
\* the clock of the service's behaviours stops here
MaxSvcTime == 2000

\* the substance pages of the wiki, in the order a listing gives them
Pages == <<"LSD", "MDMA">>

\* query.data of the browsebysubject answer for a page
PageData(page) ==
    IF page = "LSD" THEN <<PropPsychoactiveClass, PropCrossToleranceText>>
    ELSE <<PropOralCommonMin, PropCrossToleranceList>>

\* the pages an ask condition selects
WikiAsk(cond, term) ==
    CASE cond = "title" -> IF \E i \in 1 .. Len(Pages) : Pages[i] = term THEN <<term>> ELSE <<>>
      [] cond = "category" -> Pages
      [] cond = "common_name" -> IF term = "acid" THEN <<"LSD">> ELSE <<>>
      [] cond = "systematic_name" -> IF term = "lysergide" THEN <<"LSD">> ELSE <<>>
      [] cond = "Chemical class" -> IF term = "Lysergamide" THEN <<"LSD">> ELSE <<>>
      [] cond = "Psychoactive class" -> IF term = "Psychedelic" THEN Pages ELSE <<>>
      [] cond = "Effect" -> IF term = "Euphoria" THEN <<"MDMA">> ELSE <<>>

\* |limit=..|offset=.. of an ask query, as the wiki applies them
Paginate(list, limit, offset) ==
    SubSeq(list, offset + 1,
           IF limit = 0 \/ offset + limit > Len(list) THEN Len(list) ELSE offset + limit)

FullUrl(page) == "https://psychonautwiki.org/wiki/" \o page

\* query.results of the answer to an ask URL
Results(u) ==
    Apply(Paginate(WikiAsk(u.cond, u.term), u.limit, u.offset), LAMBDA ps :
        [i \in 1 .. Len(ps) |-> [fulltext |-> ps[i], fullurl |-> FullUrl(ps[i])]])

\* _renderPagination(limit, offset): a falsy limit or offset is left out
RenderPagination(limit, offset) ==
    [limit |-> IF limit # 0 THEN limit ELSE 0, offset |-> IF offset # 0 THEN offset ELSE 0]

\* connector.get({ query: `${query}${pagination}` }): the URL of an ask
AskUrl(cond, term, limit, offset) ==
    [action |-> "ask", cond |-> cond, term |-> term,
     limit |-> RenderPagination(limit, offset).limit,
     offset |-> RenderPagination(limit, offset).offset, subject |-> ""]

\* connector.get({ action: 'browsebysubject', subject })
BrowseUrl(subject) ==
    [action |-> "browsebysubject", cond |-> "", term |-> "", limit |-> 0, offset |-> 0,
     subject |-> subject]

\* `${query}` in a template: undefined is written out
TemplateString(query) == IF query = "" THEN "undefined" ELSE query

\* the lookups in the order systematic name before common name
LookupCondSwapped(s, query) ==
    CASE s = 1 -> IF query # "" THEN [cond |-> "title", term |-> query]
                  ELSE [cond |-> "category", term |-> "Psychoactive substance"]
      [] s = 2 -> [cond |-> "systematic_name", term |-> TemplateString(query)]
      [] s = 3 -> [cond |-> "common_name", term |-> TemplateString(query)]
\* the condition of the s-th lookup of getSubstances: lines 26-29, 33, 38
LookupCond(s, query) ==
    CASE s = 1 -> IF query # "" THEN [cond |-> "title", term |-> query]
                  ELSE [cond |-> "category", term |-> "Psychoactive substance"]
      [] s = 2 -> [cond |-> "common_name", term |-> TemplateString(query)]
      [] s = 3 -> [cond |-> "systematic_name", term |-> TemplateString(query)]

LookupUrl(s, args) ==
    AskUrl(LookupCond(s, args.query).cond, LookupCond(s, args.query).term,
           args.limit, args.offset)

\* the number of lookups getSubstances can make
LastLookup == 3

ExclusiveArgs == {"effect", "query", "chemicalClass", "psychoactiveClass"}

\* a check that lets two of the arguments through
NotExclusiveFromThree(args) ==
    Cardinality({f \in ExclusiveArgs : args[f] # ""}) >= 3
\* [effect, query, chemicalClass, psychoactiveClass].filter(Boolean).length >= 2
NotExclusive(args) ==
    Cardinality({f \in ExclusiveArgs : args[f] # ""}) >= 2

\* lines 21-23: the listing a class or effect argument delegates to
Delegates(args) == args.chemicalClass # "" \/ args.psychoactiveClass # "" \/ args.effect # ""

\* _getByClass / getEffectSubstances: the URL of the listing
DelegateUrl(args) ==
    IF args.chemicalClass # ""
    THEN AskUrl("Chemical class", args.chemicalClass, args.limit, args.offset)
    ELSE IF args.psychoactiveClass # ""
    THEN AskUrl("Psychoactive class", args.psychoactiveClass, args.limit, args.offset)
    ELSE AskUrl("Effect", args.effect, args.limit, args.offset)

NoArgs ==
    [chemicalClass |-> "", psychoactiveClass |-> "", effect |-> "", query |-> "",
     limit |-> 0, offset |-> 0]

\* the arguments getSubstances is called with
SvcArgs ==
    {[NoArgs EXCEPT !.query = q, !.limit = 1] : q \in {"LSD", "MDMA", "acid", "lysergide", "zzz"}}
    \cup {NoArgs, [NoArgs EXCEPT !.offset = 2],
          [NoArgs EXCEPT !.chemicalClass = "Lysergamide"],
          [NoArgs EXCEPT !.psychoactiveClass = "Psychedelic"],
          [NoArgs EXCEPT !.effect = "Euphoria"],
          [NoArgs EXCEPT !.query = "LSD", !.effect = "Euphoria"],
          [NoArgs EXCEPT !.chemicalClass = "Lysergamide", !.psychoactiveClass = "Psychedelic"],
          [NoArgs EXCEPT !.query = "LSD", !.chemicalClass = "Lysergamide",
                         !.psychoactiveClass = "Psychedelic"]}

\* the interaction lists of a parent substance
InteractionLists == {<<"zzz", "MDMA">>}

\* resolveInteractions: getSubstances({ query: name, limit: 1, offset: 0 })
InteractionArgs(name) == [NoArgs EXCEPT !.query = name, !.limit = 1]

\* every URL the service can ask the connector for
SvcUrls ==
    {LookupUrl(s, a) : s \in 1 .. LastLookup,
                       a \in SvcArgs \cup {InteractionArgs(l[i]) : l \in InteractionLists, i \in 1 .. 2}}
    \cup {DelegateUrl(a) : a \in {x \in SvcArgs : Delegates(x)}}
    \cup {BrowseUrl(Pages[i]) : i \in 1 .. Len(Pages)}

\* fetch(url) calls started so far
TotalHttp ==
    Cardinality({x \in (DOMAIN fetches) \X (1 .. Retries + 1) :
                    x[2] <= fetches[x[1]].attempts
                              + (IF fetches[x[1]].pc = "fetch" THEN 1 ELSE 0)})

\* the semantic data of an item that was not enriched
NoSemantics == [leaves |-> {}, roaKeys |-> <<>>, roas |-> <<>>]

\* _mapTextUrl(obj)
MapTextUrl(results) ==
    [i \in 1 .. Len(results) |-> [name |-> results[i].fulltext, url |-> results[i].fullurl]]

\* _.merge(item, semanticData)
Merge(item, semanticData) ==
    [name |-> item.name, url |-> item.url, stub |-> FALSE, record |-> semanticData]

\* { name }
Stub(name) == [name |-> name, url |-> "", stub |-> TRUE, record |-> NoSemantics]

\* the values in the order in which the promises settled
InCompletionOrder(values, doneOrder) ==
    [k \in 1 .. Len(values) |-> values[doneOrder[k]]]
\* Promise.all(promises): the value of the i-th promise at position i
PromiseAll(values, doneOrder) ==
    [k \in 1 .. Len(values) |-> values[k]]

\* One getSubstances invocation.
\*   op/idx    : the resolveInteractions call it belongs to and its position
\*               there (0 for a call of its own)
\*   pc        : "lookup" or "byclass" awaiting the call `awaiting`, "enrich"
\*               awaiting its browsebysubject calls, "done", "failed"
\*   lookups   : the connector calls of its lookups, in the order issued
\*   items     : _mapTextUrl of the results it enriches
\*   gets      : the browsebysubject call of each item
\*   enriched  : per item, whether its lookup is over and the merged item
\*   doneOrder : the items in the order in which their lookups were over
\*   t0, http0, http1 : the time and the number of fetch calls at its start,
\*               and the number of fetch calls at its end
NewRequest(args, op, idx) ==
    [args |-> args, op |-> op, idx |-> idx, pc |-> "start", error |-> "none",
     lookups |-> <<>>, awaiting |-> 0, items |-> <<>>, gets |-> <<>>,
     enriched |-> <<>>, doneOrder |-> <<>>, result |-> <<>>,
     t0 |-> now, http0 |-> TotalHttp, http1 |-> 0]

Finished(req, result) ==
    [req EXCEPT !.pc = "done", !.result = result, !.awaiting = 0, !.http1 = TotalHttp]

Failed(req, error) ==
    [req EXCEPT !.pc = "failed", !.error = error, !.awaiting = 0, !.http1 = TotalHttp]

ReqIds == 1 .. Len(svcReqs)
OpIds == 1 .. Len(svcOps)

\* getSubstances(args) up to its first await: the check, then the listing a
\* class or effect delegates to, or the direct lookup
CallGetSubstances(args, op, idx) ==
    IF NotExclusive(args)
    THEN /\ svcReqs' = Append(svcReqs, Failed(NewRequest(args, op, idx), "BadInput"))
         /\ UNCHANGED <<cacheVars, connVars>>
    ELSE IF Delegates(args)
    THEN /\ ConnectorGet(DelegateUrl(args))
         /\ svcReqs' = Append(svcReqs, [NewRequest(args, op, idx) EXCEPT
                                           !.pc = "byclass", !.awaiting = Len(calls) + 1])
    ELSE /\ ConnectorGet(LookupUrl(1, args))
         /\ svcReqs' = Append(svcReqs, [NewRequest(args, op, idx) EXCEPT
                                           !.pc = "lookup", !.awaiting = Len(calls) + 1,
                                           !.lookups = <<Len(calls) + 1>>])

\* a synchronous run that issues several connector calls is in progress: the
\* map of _enrichResults or of resolveInteractions has items left
IssuePending ==
    \/ \E i \in ReqIds : svcReqs[i].pc = "enrich" /\ Len(svcReqs[i].gets) < Len(svcReqs[i].items)
    \/ \E o \in OpIds : svcOps[o].pc = "map"

Settled(c) == calls[c].state # "waiting"

\* a promise continuation of the service is ready to run
ContinuationReady ==
    \/ \E i \in ReqIds :
           \/ svcReqs[i].pc \in {"lookup", "byclass"} /\ Settled(svcReqs[i].awaiting)
           \/ /\ svcReqs[i].pc \in {"enrich", "failed"}
              /\ \E j \in 1 .. Len(svcReqs[i].gets) :
                     ~svcReqs[i].enriched[j].done /\ Settled(svcReqs[i].gets[j])
    \/ \E o \in OpIds :
           /\ svcOps[o].pc \in {"wait", "failed"}
           /\ \E j \in 1 .. Len(svcOps[o].reqs) :
                  ~svcOps[o].out[j].done /\ svcReqs[svcOps[o].reqs[j]].pc \in {"done", "failed"}
    \/ \E t \in tasks : t.bg /\ t.phase # "awaiting"

\* promise continuations run before timers and I/O callbacks
MicrotaskPending == IssuePending \/ ContinuationReady

\* an operation of the service is under way
Busy ==
    \/ \E i \in ReqIds : svcReqs[i].pc \notin {"done", "failed"}
    \/ \E o \in OpIds : svcOps[o].pc \notin {"done", "failed"}

TopLevelCalls == Cardinality({i \in ReqIds : svcReqs[i].op = 0}) + Len(svcOps)

\* A behaviour studies one getSubstances call, which it repeats: the
\* arguments of the getSubstances calls that passed the check
StudiedArgs == {svcReqs[i].args : i \in {x \in ReqIds : svcReqs[x].op = 0 /\ svcReqs[x].error # "BadInput"}}

\* pwService.getSubstances(args), called when the operation before is over:
\* the call under study, or one with conflicting arguments
GetSubstances(args) ==
    /\ TopLevelCalls < MaxSvcCalls
    /\ NotExclusive(args) \/ StudiedArgs \subseteq {args}
    /\ ~Busy /\ ~MicrotaskPending
    /\ CallGetSubstances(args, 0, 0)
    /\ UNCHANGED <<svcOps, outsideSvc>>

\* the continuation of a class or effect listing: return this._mapTextUrl(...)
ByClassReturns(i) ==
    /\ ~IssuePending
    /\ svcReqs[i].pc = "byclass"
    /\ Settled(svcReqs[i].awaiting)
    /\ svcReqs' = [svcReqs EXCEPT ![i] =
           IF calls[svcReqs[i].awaiting].state = "threw"
           THEN Failed(svcReqs[i], "Upstream")
           ELSE Apply(MapTextUrl(Results(calls[svcReqs[i].awaiting].key)), LAMBDA items :
                    Finished([svcReqs[i] EXCEPT !.items = items],
                             [j \in 1 .. Len(items) |-> Merge(items[j], NoSemantics)]))]
    /\ UNCHANGED <<cacheVars, connVars, svcOps, outsideSvc>>

\* the continuation of await this._lookupWithPagination(...): the next
\* lookup when the results are empty and one is left, else _enrichResults,
\* whose map issues the first browsebysubject call in the same run
LookupReturns(i) ==
    /\ ~IssuePending
    /\ svcReqs[i].pc = "lookup"
    /\ Settled(svcReqs[i].awaiting)
    /\ \E found \in {Results(calls[svcReqs[i].awaiting].key)} :
           IF calls[svcReqs[i].awaiting].state = "threw"
           THEN /\ svcReqs' = [svcReqs EXCEPT ![i] = Failed(@, "Upstream")]
                /\ UNCHANGED <<cacheVars, connVars>>
           ELSE IF found = <<>> /\ Len(svcReqs[i].lookups) < LastLookup
           THEN /\ ConnectorGet(LookupUrl(Len(svcReqs[i].lookups) + 1, svcReqs[i].args))
                /\ svcReqs' = [svcReqs EXCEPT ![i].awaiting = Len(calls) + 1,
                                              ![i].lookups = Append(@, Len(calls) + 1)]
           ELSE IF found = <<>>
           THEN /\ svcReqs' = [svcReqs EXCEPT ![i] = Finished(@, <<>>)]
                /\ UNCHANGED <<cacheVars, connVars>>
           ELSE /\ ConnectorGet(BrowseUrl(found[1].fulltext))
                /\ svcReqs' = [svcReqs EXCEPT
                       ![i].pc = "enrich", ![i].awaiting = 0,
                       ![i].items = MapTextUrl(found),
                       ![i].gets = <<Len(calls) + 1>>,
                       ![i].enriched = [j \in 1 .. Len(found) |->
                                           [done |-> FALSE, value |-> Stub("")]]]
    /\ UNCHANGED <<svcOps, outsideSvc>>

\* items.map(async item => ...) of _enrichResults, for the next item:
\* _getSemanticProps(item.name) up to its await
EnrichNext(i) ==
    /\ svcReqs[i].pc = "enrich"
    /\ Len(svcReqs[i].gets) < Len(svcReqs[i].items)
    /\ ConnectorGet(BrowseUrl(svcReqs[i].items[Len(svcReqs[i].gets) + 1].name))
    /\ svcReqs' = [svcReqs EXCEPT ![i].gets = Append(@, Len(calls) + 1)]
    /\ UNCHANGED <<svcOps, outsideSvc>>

\* what a request is after the lookup of item j gave value: when it was the
\* last one, the request is over with the list Promise.all gives
AfterEnriched(req, j, value) ==
    Apply([req EXCEPT !.enriched[j] = [done |-> TRUE, value |-> value],
                      !.doneOrder = Append(@, j)],
          LAMBDA next :
              IF next.pc = "enrich" /\ \A k \in 1 .. Len(next.enriched) : next.enriched[k].done
              THEN Finished(next, PromiseAll([k \in 1 .. Len(next.enriched) |->
                                                 next.enriched[k].value],
                                             next.doneOrder))
              ELSE next)

\* the continuation of await this._getSemanticProps(item.name) for item j:
\* this._parser.parseFromSMW(res), then _.merge(item, semanticData); a
\* rejected lookup rejects the Promise.all, the other lookups go on
SemanticPropsReturn(i, j) ==
    /\ ~IssuePending
    /\ svcReqs[i].pc \in {"enrich", "failed"}
    /\ ~svcReqs[i].enriched[j].done
    /\ Settled(svcReqs[i].gets[j])
    /\ IF calls[svcReqs[i].gets[j]].state = "threw"
       THEN /\ svcReqs' = [svcReqs EXCEPT ![i] =
                   Failed([@ EXCEPT !.enriched[j].done = TRUE], "Upstream")]
            /\ UNCHANGED wtPropGlobLastIndex
       ELSE \E r \in {ParseFromSMWResult(PageData(svcReqs[i].items[j].name),
                                         wtPropGlobLastIndex)} :
                /\ wtPropGlobLastIndex' = r.lastIndex
                /\ svcReqs' = [svcReqs EXCEPT ![i] =
                       AfterEnriched(@, j, Merge(svcReqs[i].items[j], r.record))]
    /\ UNCHANGED <<now, cacheVars, connVars, pwVars, parses, svcOps, resVars, helperVars>>

\* One resolveInteractions call.
\*   reqs      : the getSubstances invocation of each name
\*   out       : per name, whether its lookup is over and what it gave
\*   doneOrder : the names in the order in which their lookups were over
\*   pc        : "map" while the map is issuing, "wait", "done", "failed"
NewOp(names) ==
    [names |-> names, reqs |-> <<Len(svcReqs) + 1>>,
     out |-> [j \in 1 .. Len(names) |-> [done |-> FALSE, value |-> Stub("")]],
     doneOrder |-> <<>>, pc |-> IF Len(names) > 1 THEN "map" ELSE "wait", result |-> <<>>]

\* resolveInteractions(interactions, ctx) for the names a substance that
\* getSubstances returned lists, called when the operation before is over:
\* the map calls getSubstances for the first name
ResolveInteractions(names) ==
    /\ TopLevelCalls < MaxSvcCalls
    /\ \E i \in ReqIds : svcReqs[i].op = 0 /\ svcReqs[i].result # <<>>
    /\ ~Busy /\ ~MicrotaskPending
    /\ svcOps' = Append(svcOps, NewOp(names))
    /\ CallGetSubstances(InteractionArgs(names[1]), Len(svcOps) + 1, 1)
    /\ UNCHANGED outsideSvc

\* interactions.map(async name => ...) for the next name
MapNext(o) ==
    /\ svcOps[o].pc = "map"
    /\ \E k \in {Len(svcOps[o].reqs) + 1} :
           /\ CallGetSubstances(InteractionArgs(svcOps[o].names[k]), o, k)
           /\ svcOps' = [svcOps EXCEPT
                  ![o].reqs = Append(@, Len(svcReqs) + 1),
                  ![o].pc = IF k = Len(svcOps[o].names) THEN "wait" ELSE "map"]
    /\ UNCHANGED outsideSvc

\* what a call is after the lookup of name j gave value
AfterResolved(op, j, value) ==
    Apply([op EXCEPT !.out[j] = [done |-> TRUE, value |-> value],
                     !.doneOrder = Append(@, j)],
          LAMBDA next :
              IF next.pc = "wait" /\ \A k \in 1 .. Len(next.out) : next.out[k].done
              THEN [next EXCEPT !.pc = "done",
                                !.result = PromiseAll([k \in 1 .. Len(next.out) |->
                                                          next.out[k].value],
                                                      next.doneOrder)]
              ELSE next)

\* the continuation of await ctx.pwService.getSubstances(...) for name j:
\* if (results.length === 1) return results[0]; return { name }
InteractionReturns(o, j) ==
    /\ ~IssuePending
    /\ svcOps[o].pc \in {"wait", "failed"}
    /\ ~svcOps[o].out[j].done
    /\ svcReqs[svcOps[o].reqs[j]].pc \in {"done", "failed"}
    /\ svcOps' = [svcOps EXCEPT ![o] =
           IF svcReqs[svcOps[o].reqs[j]].pc = "failed"
           THEN [@ EXCEPT !.out[j].done = TRUE, !.pc = "failed"]
           ELSE IF Len(svcReqs[svcOps[o].reqs[j]].result) = 1
           THEN AfterResolved(@, j, svcReqs[svcOps[o].reqs[j]].result[1])
           ELSE AfterResolved(@, j, Stub(svcOps[o].names[j]))]
    /\ UNCHANGED <<cacheVars, connVars, svcReqs, outsideSvc>>

\* fetch(url) of a _fetchWithRetry settles.  The upstream answers every
\* request here; its failures and the retries are the subject of SpecConn.
SvcFetchSettles(id) ==
    /\ ~MicrotaskPending
    /\ FetchSettles(id, "ok")

SvcRefreshFinally(t) ==
    /\ ~IssuePending
    /\ RefreshFinally(t)

\* the clock moves while the service is idle: an operation takes less than
\* one tick
SvcTick ==
    /\ ~MicrotaskPending
    /\ ~Busy
    /\ now + TickMs <= MaxSvcTime
    /\ now' = now + TickMs
    /\ UNCHANGED <<cacheVars, connVars, pwVars, parserVars, svcVars, resVars, helperVars>>

SvcInit ==
    /\ now = 0
    /\ store = EmptyMap
    /\ refreshing = {}
    /\ tasks = {}
    /\ calls = <<>>
    /\ lastRefresh = [u \in SvcUrls |-> [status |-> "none", value |-> 0, clean |-> TRUE]]
    /\ fetches = EmptyMap
    /\ pwBackend = EmptyMap
    /\ pwProcessMap = {}
    /\ pwJobs = {}
    /\ pwCalls = <<>>
    /\ wtPropGlobLastIndex = 0
    /\ parses = <<>>
    /\ svcReqs = <<>>
    /\ svcOps = <<>>
    /\ gqlRequest = [impl |-> "none", fields |-> <<>>, started |-> 0]
    /\ arbitrated = [called |-> FALSE, payload |-> <<>>, threw |-> FALSE, properties |-> <<>>]
    /\ finds = <<>>
    /\ ctxArgs = [query |-> "", effect |-> "", substance |-> "", limit |-> 0, offset |-> 0]
    /\ fieldRuns = <<>>
    /\ pwServiceCalls = <<>>

SvcNext ==
    \/ \E args \in SvcArgs : GetSubstances(args)
    \/ \E names \in InteractionLists : ResolveInteractions(names)
    \/ \E o \in OpIds : MapNext(o)
    \/ \E i \in ReqIds : ByClassReturns(i)
    \/ \E i \in ReqIds : LookupReturns(i)
    \/ \E i \in ReqIds : EnrichNext(i)
    \/ \E i \in ReqIds : \E j \in 1 .. Len(svcReqs[i].gets) : SemanticPropsReturn(i, j)
    \/ \E o \in OpIds : \E j \in 1 .. Len(svcOps[o].reqs) : InteractionReturns(o, j)
    \/ \E id \in DOMAIN fetches : SvcFetchSettles(id)
    \/ \E t \in tasks : SvcRefreshFinally(t)
    \/ SvcTick

SpecSvc == SvcInit /\ [][SvcNext]_vars

SvcTypeOK ==
    /\ \A i \in ReqIds : svcReqs[i].pc \in {"byclass", "lookup", "enrich", "done", "failed"}
    /\ \A o \in OpIds : svcOps[o].pc \in {"map", "wait", "done", "failed"}

----------------------------------------------------------------------------
(* Properties of the service *)

\* two or more of effect, query, chemicalClass, psychoactiveClass are set
TwoOrMoreSet(args) ==
    \E f, g \in ExclusiveArgs : f # g /\ args[f] # "" /\ args[g] # ""

\* C11: a getSubstances call with two or more of {effect, query,
\* chemicalClass, psychoactiveClass} set fails with the input error in the
\* step that makes it, and that step issues no connector call and leaves the
\* cache and the fetches as they were; the failed call does nothing later.
C11_ExclusiveArgsFailFirst ==
    [][\A i \in DOMAIN svcReqs' :
           TwoOrMoreSet(svcReqs'[i].args) =>
               IF i \in DOMAIN svcReqs
               THEN svcReqs'[i] = svcReqs[i]
               ELSE /\ svcReqs'[i].pc = "failed"
                    /\ svcReqs'[i].error = "BadInput"
                    /\ svcReqs'[i].lookups = <<>>
                    /\ svcReqs'[i].gets = <<>>
                    /\ UNCHANGED <<cacheVars, connVars>>]_vars

\* a call with conflicting arguments has failed while the cache holds entries
C11_Witness ==
    /\ DOMAIN store # {}
    /\ \E i \in ReqIds : svcReqs[i].error = "BadInput" /\ TwoOrMoreSet(svcReqs[i].args)

\* the requests substances(query=X)
IsQueryRequest(r) == r.args.query # "" /\ ~TwoOrMoreSet(r.args)

\* the lookups in the order of the claim
ClaimedLookup(s) == <<"title", "common_name", "systematic_name">>[s]

\* C12: for substances(query=X) the lookups are issued in the order direct
\* title, common_name, systematic_name, each for X; a later lookup is issued
\* only when every earlier one has returned no result; what is enriched and
\* returned is the first non-empty result, or the empty list when all three
\* are empty.
C12_LookupOrder ==
    \A i \in ReqIds :
        IsQueryRequest(svcReqs[i]) =>
            /\ Len(svcReqs[i].lookups) \in 1 .. 3
            /\ \A s \in 1 .. Len(svcReqs[i].lookups) :
                   /\ calls[svcReqs[i].lookups[s]].key.cond = ClaimedLookup(s)
                   /\ calls[svcReqs[i].lookups[s]].key.term = svcReqs[i].args.query
            /\ \A s \in 1 .. Len(svcReqs[i].lookups) - 1 :
                   /\ calls[svcReqs[i].lookups[s]].state = "returned"
                   /\ Results(calls[svcReqs[i].lookups[s]].key) = <<>>
            /\ svcReqs[i].pc \in {"enrich", "done"} =>
                   /\ Len(svcReqs[i].lookups) = 3
                         \/ Results(calls[svcReqs[i].lookups[Len(svcReqs[i].lookups)]].key) # <<>>
                   /\ svcReqs[i].items =
                         MapTextUrl(Results(calls[svcReqs[i].lookups[Len(svcReqs[i].lookups)]].key))
            /\ svcReqs[i].pc = "done" =>
                   /\ Len(svcReqs[i].result) = Len(svcReqs[i].items)
                   /\ \A j \in 1 .. Len(svcReqs[i].items) :
                          /\ svcReqs[i].result[j].name = svcReqs[i].items[j].name
                          /\ ~svcReqs[i].result[j].stub

\* a query answered by its third lookup, enriched and returned
C12_Witness ==
    \E i \in ReqIds :
        /\ IsQueryRequest(svcReqs[i])
        /\ svcReqs[i].pc = "done"
        /\ Len(svcReqs[i].lookups) = 3
        /\ svcReqs[i].result # <<>>

\* request j repeats request i, substances(query: X, limit: 1) with one page
\* of title X, which started on an empty cache; both are over and j started
\* within the TTL of the start of i
IsRerunWithinTtl(i, j) ==
    /\ i < j
    /\ svcReqs[i].op = 0 /\ svcReqs[j].op = 0
    /\ svcReqs[j].args = svcReqs[i].args
    /\ IsQueryRequest(svcReqs[i])
    /\ svcReqs[i].args.limit = 1
    /\ Len(WikiAsk("title", svcReqs[i].args.query)) = 1
    /\ svcReqs[i].lookups # <<>> /\ svcReqs[i].lookups[1] = 1
    /\ svcReqs[i].pc = "done" /\ svcReqs[j].pc = "done"
    /\ svcReqs[j].t0 - svcReqs[i].t0 <= Ttl

\* the first run issues two HTTP calls, one ask and one browsebysubject, and
\* the rerun none
RerunIssuesNoCalls ==
    \A i, j \in ReqIds :
        IsRerunWithinTtl(i, j) =>
            /\ svcReqs[i].http1 - svcReqs[i].http0 = 2
            /\ {fetches[id].url.action : id \in DOMAIN fetches} = {"ask", "browsebysubject"}
            /\ svcReqs[j].http1 - svcReqs[j].http0 = 0

\* C13: substances(query: X, limit: 1) with one matching page, on an empty
\* cache, issues exactly two HTTP calls; the same query again within TTL
\* issues none and returns the same substance.
C13_TwoCallsThenNoneAndSame ==
    /\ RerunIssuesNoCalls
    /\ \A i, j \in ReqIds :
           IsRerunWithinTtl(i, j) => svcReqs[j].result = svcReqs[i].result

\* C14: a finished enrichment returns one element per item, the i-th being
\* the i-th item merged with what its own lookup gave; a finished
\* resolveInteractions returns one element per name, the i-th being what the
\* lookup of the i-th name gave: its one substance, or the stub of the name.
C14_FanOutPreservesOrder ==
    /\ \A i \in ReqIds :
           (svcReqs[i].pc = "done" /\ svcReqs[i].lookups # <<>>) =>
               /\ Len(svcReqs[i].result) = Len(svcReqs[i].items)
               /\ \A j \in 1 .. Len(svcReqs[i].items) :
                      /\ svcReqs[i].result[j].name = svcReqs[i].items[j].name
                      /\ svcReqs[i].result[j] = svcReqs[i].enriched[j].value
                      /\ calls[svcReqs[i].gets[j]].key = BrowseUrl(svcReqs[i].items[j].name)
    /\ \A o \in OpIds :
           svcOps[o].pc = "done" =>
               /\ Len(svcOps[o].result) = Len(svcOps[o].names)
               /\ \A j \in 1 .. Len(svcOps[o].names) :
                      /\ svcReqs[svcOps[o].reqs[j]].args.query = svcOps[o].names[j]
                      /\ svcOps[o].result[j] =
                             IF Len(svcReqs[svcOps[o].reqs[j]].result) = 1
                             THEN svcReqs[svcOps[o].reqs[j]].result[1]
                             ELSE Stub(svcOps[o].names[j])

\* an enrichment of two items and a resolveInteractions of two names are
\* over, each with the second lookup over before the first
C14_Witness ==
    /\ \E i \in ReqIds : svcReqs[i].pc = "done" /\ svcReqs[i].doneOrder = <<2, 1>>
    /\ \E o \in OpIds : svcOps[o].pc = "done" /\ svcOps[o].doneOrder = <<2, 1>>

----------------------------------------------------------------------------
(* The GraphQL resolvers: legacy/variant2 graphql/resolvers.js and server   *)
(* graph/itemType.js, over a service whose answers are fixed.  One request  *)
(* is executed with one context object: the executor calls the resolvers   *)
(* of the root fields in document order in one run, and the resolvers of    *)
(* the fields of a parent once the parent is there.  A query, effect or    *)
(* substance argument that is not given is ""; limit and offset always have *)
(* a value (the schema gives them defaults).                                *)

\* number of nested resolver invocations in a request
MaxNested == 2

\* the two resolver maps
Impls == {"variant2", "server"}

Bag(query, effect, substance, limit, offset) ==
    [query |-> query, effect |-> effect, substance |-> substance,
     limit |-> limit, offset |-> offset]

\* the root fields a request is made of
RootFieldCalls ==
    {[field |-> "substances", args |-> Bag("", "", "", 2, 0)],
     [field |-> "substances_by_effect", args |-> Bag("", "Euphoria", "", 1, 0)],
     [field |-> "effects_by_substance", args |-> Bag("", "", "MDMA", 1, 0)]}

Documents ==
    {<<f>> : f \in RootFieldCalls} \cup {<<f, g>> : f, g \in RootFieldCalls}

\* the service method a root field calls with its args
RootMethod(field) ==
    CASE field = "substances" -> "getSubstances"
      [] field = "effects_by_substance" -> "getSubstanceEffects"
      [] field = "substances_by_effect" -> "getEffectSubstances"

\* the type of the objects a root field returns
RootType(field) == IF field = "effects_by_substance" THEN "Effect" ELSE "Substance"

\* the names the service answers a call with
AnswerOf(call) ==
    CASE call.method = "getSubstances" ->
             Paginate(IF call.args.query = "" THEN Pages
                      ELSE WikiAsk("title", call.args.query),
                      call.args.limit, call.args.offset)
      [] call.method = "getEffectSubstances" ->
             Paginate(WikiAsk("Effect", call.args.effect), call.args.limit, call.args.offset)
      [] call.method = "getSubstanceEffects" ->
             Paginate(IF WikiAsk("title", call.args.substance) # <<>>
                      THEN <<"Euphoria">> ELSE <<>>,
                      call.args.limit, call.args.offset)

\* a substance or effect the service returned
Found(name) == [name |-> name, url |-> FullUrl(name), stub |-> FALSE, record |-> NoSemantics]

\* parent.uncertainInteractions, unsafeInteractions, dangerousInteractions:
\* the same list for the three, or no list
InteractionsOf(parent) ==
    IF parent = "LSD" THEN [isArray |-> TRUE, names |-> <<"MDMA", "zzz">>]
    ELSE [isArray |-> FALSE, names |-> <<>>]

InteractionKinds == {"uncertainInteractions", "unsafeInteractions", "dangerousInteractions"}

\* One resolver invocation.
\*   root   : the invocation of the root field its parent came from (itself
\*            for a root field)
\*   passed : the arguments it passed to the service
\*   calls  : its service calls; out, doneOrder: as for resolveInteractions
\*   state  : "pending", "resolved", "rejected", or "null" (resolved with null)
NewRun(field, root, parent, passed, names, callIds) ==
    [field |-> field, root |-> root, parent |-> parent, passed |-> passed,
     names |-> names, calls |-> callIds,
     out |-> [j \in 1 .. Len(names) |-> [done |-> FALSE, value |-> Stub("")]],
     doneOrder |-> <<>>, state |-> "pending", result |-> <<>>]

NewServiceCall(method, args) == [method |-> method, args |-> args, state |-> "pending"]

RunIds == 1 .. Len(fieldRuns)

\* Query.substances, effects_by_substance, substances_by_effect of both
\* maps: ctx.args = args; return ctx.<service>.<method>(args)
RunRootField(f) ==
    /\ ctxArgs' = f.args
    /\ pwServiceCalls' = Append(pwServiceCalls, NewServiceCall(RootMethod(f.field), f.args))
    /\ fieldRuns' = Append(fieldRuns,
           NewRun(f.field, Len(fieldRuns) + 1, "", f.args, <<>>, <<Len(pwServiceCalls) + 1>>))

\* the executor starts on a request: the resolver of its first root field
ExecuteQuery(impl, doc) ==
    /\ gqlRequest.impl = "none"
    /\ gqlRequest' = [impl |-> impl, fields |-> doc, started |-> 1]
    /\ RunRootField(doc[1])
    /\ UNCHANGED outsideRes

\* the root fields of the request have not all been started
RootsPending == gqlRequest.started < Len(gqlRequest.fields)

\* the resolver of the next root field, in the same run
NextRootField ==
    /\ RootsPending
    /\ gqlRequest' = [gqlRequest EXCEPT !.started = @ + 1]
    /\ RunRootField(gqlRequest.fields[gqlRequest.started + 1])
    /\ UNCHANGED outsideRes

\* the promise of a service call resolves
ServiceSettles(c) == pwServiceCalls' = [pwServiceCalls EXCEPT ![c].state = "resolved"]

\* the promise of its one service call, which the resolver returned, resolves
FieldReturns(n) ==
    /\ ~RootsPending
    /\ fieldRuns[n].state = "pending"
    /\ fieldRuns[n].field \notin InteractionKinds
    /\ ServiceSettles(fieldRuns[n].calls[1])
    /\ fieldRuns' = [fieldRuns EXCEPT
           ![n].state = "resolved",
           ![n].result = Apply(AnswerOf(pwServiceCalls[fieldRuns[n].calls[1]]), LAMBDA names :
                             [j \in 1 .. Len(names) |-> Found(names[j])])]
    /\ UNCHANGED <<gqlRequest, ctxArgs, outsideRes>>

\* { ...ctx.args, key: value } of resolvers.js: the parent's name wins
SpreadThenSet(args, key, value) == [args EXCEPT ![key] = value]

\* _.assign({}, { key: value }, ctx.args) of itemType.js: a key of ctx.args
\* wins
AssignCtxArgsLast(args, key, value) ==
    IF args[key] # "" THEN args ELSE [args EXCEPT ![key] = value]

\* the arguments a nested resolver passes to the service
NestedArgs(impl, args, key, value) ==
    IF impl = "variant2" THEN SpreadThenSet(args, key, value)
    ELSE AssignCtxArgsLast(args, key, value)

NestedRuns == {n \in RunIds : fieldRuns[n].root # n}

\* the resolver of `field` has run on the parent `name` of root run r
HasRun(r, name, field) ==
    \E n \in NestedRuns :
        fieldRuns[n].root = r /\ fieldRuns[n].parent = name /\ fieldRuns[n].field = field

\* the j-th object root run r resolved with is there to be a parent
IsParent(r, j) ==
    /\ ~RootsPending
    /\ fieldRuns[r].root = r
    /\ fieldRuns[r].state = "resolved"
    /\ j \in 1 .. Len(fieldRuns[r].result)
    /\ Cardinality(NestedRuns) < MaxNested

\* Substance.effects: getSubstanceEffects of the parent with ctx.args
SubstanceEffects(r, j) ==
    /\ IsParent(r, j)
    /\ RootType(fieldRuns[r].field) = "Substance"
    /\ ~HasRun(r, fieldRuns[r].result[j].name, "Substance.effects")
    /\ \E passed \in {NestedArgs(gqlRequest.impl, ctxArgs, "substance",
                                 fieldRuns[r].result[j].name)} :
           /\ pwServiceCalls' = Append(pwServiceCalls,
                                       NewServiceCall("getSubstanceEffects", passed))
           /\ fieldRuns' = Append(fieldRuns,
                  NewRun("Substance.effects", r, fieldRuns[r].result[j].name, passed,
                         <<>>, <<Len(pwServiceCalls) + 1>>))
    /\ UNCHANGED <<gqlRequest, ctxArgs, outsideRes>>

\* Effect.substances: getEffectSubstances of the parent with ctx.args
EffectSubstances(r, j) ==
    /\ IsParent(r, j)
    /\ RootType(fieldRuns[r].field) = "Effect"
    /\ ~HasRun(r, fieldRuns[r].result[j].name, "Effect.substances")
    /\ \E passed \in {NestedArgs(gqlRequest.impl, ctxArgs, "effect",
                                 fieldRuns[r].result[j].name)} :
           /\ pwServiceCalls' = Append(pwServiceCalls,
                                       NewServiceCall("getEffectSubstances", passed))
           /\ fieldRuns' = Append(fieldRuns,
                  NewRun("Effect.substances", r, fieldRuns[r].result[j].name, passed,
                         <<>>, <<Len(pwServiceCalls) + 1>>))
    /\ UNCHANGED <<gqlRequest, ctxArgs, outsideRes>>

\* the resolver evaluates `awaitctx`, an identifier that is not defined: the
\* mapped function throws a ReferenceError before it calls the service
ThrowsReferenceError(impl, kind) == impl = "server" /\ kind = "uncertainInteractions"

\* Substance.uncertainInteractions, unsafeInteractions, dangerousInteractions:
\* null when the parent has no list, else Promise.all over the list mapped to
\* getSubstances({ query: name, limit: 1, offset: 0 }) lookups
Interactions(r, j, kind) ==
    /\ IsParent(r, j)
    /\ RootType(fieldRuns[r].field) = "Substance"
    /\ ~HasRun(r, fieldRuns[r].result[j].name, kind)
    /\ \E inter \in {InteractionsOf(fieldRuns[r].result[j].name)} :
           IF ~inter.isArray
           THEN /\ fieldRuns' = Append(fieldRuns,
                       [NewRun(kind, r, fieldRuns[r].result[j].name, ctxArgs, <<>>, <<>>)
                           EXCEPT !.state = "null"])
                /\ UNCHANGED pwServiceCalls
           ELSE IF ThrowsReferenceError(gqlRequest.impl, kind)
           THEN /\ fieldRuns' = Append(fieldRuns,
                       [NewRun(kind, r, fieldRuns[r].result[j].name, ctxArgs,
                               inter.names, <<>>)
                           EXCEPT !.state = "rejected"])
                /\ UNCHANGED pwServiceCalls
           ELSE /\ pwServiceCalls' = pwServiceCalls \o
                       [k \in 1 .. Len(inter.names) |->
                           NewServiceCall("getSubstances", Bag(inter.names[k], "", "", 1, 0))]
                /\ fieldRuns' = Append(fieldRuns,
                       NewRun(kind, r, fieldRuns[r].result[j].name, ctxArgs, inter.names,
                              [k \in 1 .. Len(inter.names) |-> Len(pwServiceCalls) + k]))
    /\ UNCHANGED <<gqlRequest, ctxArgs, outsideRes>>

\* if (results.length === 1) return results[0]; return { name }
FoundOrStub(answer, name) == IF Len(answer) = 1 THEN Found(answer[1]) ELSE Stub(name)

\* the getSubstances lookup of the k-th name of an interactions resolver
\* resolves and the mapped function goes on after its await
InteractionLookupReturns(n, k) ==
    /\ ~RootsPending
    /\ fieldRuns[n].field \in InteractionKinds
    /\ fieldRuns[n].state = "pending"
    /\ ~fieldRuns[n].out[k].done
    /\ ServiceSettles(fieldRuns[n].calls[k])
    /\ fieldRuns' = [fieldRuns EXCEPT ![n] =
           Apply([@ EXCEPT !.out[k] = [done |-> TRUE,
                                       value |-> FoundOrStub(
                                           AnswerOf(pwServiceCalls[fieldRuns[n].calls[k]]),
                                           fieldRuns[n].names[k])],
                           !.doneOrder = Append(@, k)],
                 LAMBDA next :
                     IF \A i \in 1 .. Len(next.out) : next.out[i].done
                     THEN [next EXCEPT !.state = "resolved",
                                       !.result = PromiseAll([i \in 1 .. Len(next.out) |->
                                                                 next.out[i].value],
                                                             next.doneOrder)]
                     ELSE next)]
    /\ UNCHANGED <<gqlRequest, ctxArgs, outsideRes>>

ResNext ==
    \/ \E impl \in Impls : \E doc \in Documents : ExecuteQuery(impl, doc)
    \/ NextRootField
    \/ \E n \in RunIds : FieldReturns(n)
    \/ \E r \in RunIds : \E j \in 1 .. Len(fieldRuns[r].result) : SubstanceEffects(r, j)
    \/ \E r \in RunIds : \E j \in 1 .. Len(fieldRuns[r].result) : EffectSubstances(r, j)
    \/ \E r \in RunIds : \E j \in 1 .. Len(fieldRuns[r].result) :
           \E kind \in InteractionKinds : Interactions(r, j, kind)
    \/ \E n \in RunIds : \E k \in 1 .. Len(fieldRuns[n].calls) : InteractionLookupReturns(n, k)

SpecRes == Init /\ [][ResNext]_vars

----------------------------------------------------------------------------
(* Properties of the resolvers *)

InteractionRuns == {n \in RunIds : fieldRuns[n].field \in InteractionKinds}

\* C15: an interactions resolver makes, for every name of the parent's list,
\* a getSubstances({query: name, limit: 1, offset: 0}) lookup, and resolves
\* with the one substance found or else the stub {name}, name by name; the
\* three resolvers come to the same on the same parent.
C15_InteractionResolversAlike ==
    /\ \A n \in InteractionRuns :
           InteractionsOf(fieldRuns[n].parent).isArray =>
               /\ fieldRuns[n].state # "rejected"
               /\ Len(fieldRuns[n].calls) = Len(InteractionsOf(fieldRuns[n].parent).names)
               /\ \A k \in 1 .. Len(fieldRuns[n].calls) :
                      /\ pwServiceCalls[fieldRuns[n].calls[k]].method = "getSubstances"
                      /\ pwServiceCalls[fieldRuns[n].calls[k]].args =
                             Bag(InteractionsOf(fieldRuns[n].parent).names[k], "", "", 1, 0)
               /\ fieldRuns[n].state = "resolved" =>
                      /\ Len(fieldRuns[n].result) = Len(fieldRuns[n].calls)
                      /\ \A k \in 1 .. Len(fieldRuns[n].calls) :
                             fieldRuns[n].result[k] =
                                 FoundOrStub(AnswerOf(pwServiceCalls[fieldRuns[n].calls[k]]),
                                             InteractionsOf(fieldRuns[n].parent).names[k])
    /\ \A n, m \in InteractionRuns :
           (/\ fieldRuns[n].parent = fieldRuns[m].parent
            /\ fieldRuns[n].state # "pending" /\ fieldRuns[m].state # "pending")
               => /\ fieldRuns[n].state = fieldRuns[m].state
                  /\ fieldRuns[n].result = fieldRuns[m].result

\* C16: the limit and offset a nested Substance.effects or Effect.substances
\* resolver passes to the service are those of the root field whose result
\* its parent is, whatever other root fields the request has.
C16_NestedPaginationFromOwnRoot ==
    \A n \in NestedRuns :
        fieldRuns[n].field \in {"Substance.effects", "Effect.substances"} =>
            /\ fieldRuns[n].passed.limit = fieldRuns[fieldRuns[n].root].passed.limit
            /\ fieldRuns[n].passed.offset = fieldRuns[fieldRuns[n].root].passed.offset

----------------------------------------------------------------------------
(* WikitextParser: the class properties and the list-typed fields.  The     *)
(* payloads give each of them no value, one value or several values.        *)

w_stimulant_ == <<"s", "t", "i", "m", "u", "l", "a", "n", "t", "_">>
w_stimulant == <<"s", "t", "i", "m", "u", "l", "a", "n", "t">>

\* psychoactive_class = "stimulant_"
PropStimulant ==
    [property |-> w_psychoactive_class, dataitem |-> <<[type |-> 2, item |-> w_stimulant_]>>]
\* psychoactive_class, a number
PropPsychoactiveClassNumber ==
    [property |-> w_psychoactive_class, dataitem |-> <<[type |-> 1, item |-> <<"5">>]>>]
\* chemical_class, a page value: "A_b#0##" reaches the parser as "A_b#"
PropChemicalClassPage ==
    [property |-> w_chemical_class,
     dataitem |-> <<[type |-> 9, item |-> <<"A", "_", "b", "#", "0", "#", "#">>]>>]
PropChemicalClassTwo ==
    [property |-> w_chemical_class,
     dataitem |-> <<[type |-> 2, item |-> <<"a", "_", "b", "_", "c">>],
                    [type |-> 2, item |-> <<"d", "#">>]>>]
PropEffectNone == [property |-> w_effect, dataitem |-> <<>>]
\* effect, a page value of an empty title: "#0#" reaches the parser as ""
PropEffectEmpty ==
    [property |-> w_effect, dataitem |-> <<[type |-> 9, item |-> <<"#", "0", "#">>]>>]
PropDangerousTwo ==
    [property |-> w_dangerousinteraction,
     dataitem |-> <<[type |-> 2, item |-> <<"A", "l">>], [type |-> 2, item |-> <<"C", "o">>]>>]
PropUnsafeOne ==
    [property |-> w_unsafeinteraction, dataitem |-> <<[type |-> 2, item |-> <<"A", "l">>]>>]
PropUncertainNone == [property |-> w_uncertaininteraction, dataitem |-> <<>>]
PropCommonName ==
    [property |-> w_common_name, dataitem |-> <<[type |-> 2, item |-> <<"a", "_", "c">>]>>]
PropToxicityOne ==
    [property |-> w_toxicity, dataitem |-> <<[type |-> 2, item |-> <<"x">> \o LinkA]>>]

FieldPool ==
    {PropStimulant, PropPsychoactiveClassNumber, PropChemicalClassPage, PropChemicalClassTwo,
     PropEffectNone, PropEffect, PropEffectEmpty, PropDangerousTwo, PropUnsafeOne,
     PropUncertainNone, PropCommonName, PropToxicityOne, PropCrossToleranceText,
     PropCrossToleranceList}

FieldPayloads == UNION {[1 .. n -> FieldPool] : n \in 1 .. MaxProps}

FieldsNext ==
    \/ \E data \in FieldPayloads : ParseFromSMW(data)
    \/ \E data \in OtherPayloads : ParseOther(data)

SpecFields == Init /\ [][FieldsNext]_vars

----------------------------------------------------------------------------
(* Properties of the class properties and the list-typed fields *)

\* the upstream properties that are mapped to class.psychoactive and
\* class.chemical
ClassProps ==
    {[name |-> w_psychoactive_class, path |-> <<w_class, w_psychoactive>>],
     [name |-> w_chemical_class, path |-> <<w_class, w_chemical>>]}

\* an upstream class value as it is to be stored: the trailing "#" removed
\* and every "_" replaced by a space, "stimulant_" giving "stimulant"
CleanedClassName(v) ==
    IF v = w_stimulant_ THEN w_stimulant
    ELSE [i \in 1 .. (IF v # <<>> /\ v[Len(v)] = "#" THEN Len(v) - 1 ELSE Len(v)) |->
             IF v[i] = "_" THEN " " ELSE v[i]]

Last(S) == CHOOSE x \in S : \A y \in S : x >= y

\* the positions in props of the values of the property `name` that are all
\* strings
StringValuesOf(props, name) ==
    {i \in 1 .. Len(props) :
        /\ ToLowerCase(props[i].propName) = name
        /\ \A j \in 1 .. Len(props[i].prop.items) : props[i].prop.items[j].kind = "string"}

\* C21: class.psychoactive and class.chemical are lists whenever they are
\* there; their entries are the values of the last psychoactive_class or
\* chemical_class property upstream, one for one, with the trailing "#"
\* removed and every "_" replaced by a space; "stimulant_" gives
\* ["stimulant"].
C21_ClassesCleaned ==
    \A c \in ParseIds : \A cp \in ClassProps :
        \E props \in {ParseItemList(parses[c].payload)} :
            /\ \A e \in parses[c].record.leaves : e.path = cp.path => e.val.arr
            /\ StringValuesOf(props, cp.name) # {} =>
                   \E e \in parses[c].record.leaves :
                       \E up \in {props[Last(StringValuesOf(props, cp.name))].prop.items} :
                           /\ e.path = cp.path
                           /\ Len(e.val.items) = Len(up)
                           /\ \A j \in 1 .. Len(up) :
                                  e.val.items[j] = Str(CleanedClassName(up[j].s))

\* the top-level fields of a record that are declared list-shaped
ListFields ==
    {<<w_commonNames>>, <<w_toxicity>>, <<w_uncertainInteractions>>,
     <<w_unsafeInteractions>>, <<w_dangerousInteractions>>, <<w_effects>>,
     <<w_crossTolerances>>}

\* C22: in every parsed record a list-typed field that is present holds an
\* array, whether upstream gave the property no value, one value or several.
C22_ListFieldsAreArrays ==
    \A c \in ParseIds : \A e \in parses[c].record.leaves :
        e.path \in ListFields => e.val.arr

----------------------------------------------------------------------------
(* SMWDataArbitrator (server graph/helpers/smwDataArbitrator.js).  Its      *)
(* _processDataItem, _flattenIfNeeded and _skipPropertyIfNeeded are those   *)
(* of the SMWTransformer above; the subject of a payload is left out.       *)

\* _induceItemType([item]): const {type} = item, which throws a TypeError
\* when the list is empty and item is undefined
InduceItemType(items) ==
    IF items = <<>> THEN [threw |-> TRUE, type |-> "null"]
    ELSE [threw |-> FALSE,
          type |-> CASE items[1].type = 1 -> "number"
                     [] items[1].type = 2 -> "string"
                     [] items[1].type = 9 -> "property"
                     [] OTHER -> "null"]

\* _parseDataItems(items): { type, prop }
ParseDataItems(items) ==
    Apply(InduceItemType(items), LAMBDA t :
        [threw |-> t.threw, type |-> t.type,
         prop |-> IF t.threw THEN Array(<<>>) ELSE IntegrateDataItems(items)])

RECURSIVE ArbitrateFrom(_, _)
\* itemList.forEach from the i-th property on: the properties pushed, unless
\* _parseDataItems throws, which ends the loop and the call
ArbitrateFrom(itemList, i) ==
    IF i > Len(itemList) THEN [threw |-> FALSE, properties |-> <<>>]
    ELSE IF IsInternalProp(itemList[i].property) THEN ArbitrateFrom(itemList, i + 1)
    ELSE Apply(ParseDataItems(itemList[i].dataitem), LAMBDA d :
             IF d.threw THEN [threw |-> TRUE, properties |-> <<>>]
             ELSE Apply(ArbitrateFrom(itemList, i + 1), LAMBDA rest :
                      IF rest.threw THEN rest
                      ELSE [threw |-> FALSE,
                            properties |-> <<[propName |-> itemList[i].property,
                                              type |-> d.type, prop |-> d.prop]>>
                                               \o rest.properties]))

\* SMWDataArbitrator.parseItemList(itemList)
ArbitratorParseItemList(itemList) == ArbitrateFrom(itemList, 1)

\* a property with a data item of a type that is not 1, 2 or 9
PropOtherType ==
    [property |-> w_toxicity, dataitem |-> <<[type |-> 6, item |-> <<"x">>]>>]

SmwPool ==
    {PropOralCommonMin, PropOralCommonMax, PropOralDoseUnits, PropTimeToFull, PropEffect,
     PropInternal, PropEffectNone, PropUncertainNone, PropDangerousTwo, PropOtherType}

SmwPayloads == UNION {[1 .. n -> SmwPool] : n \in 1 .. MaxProps}

\* SMWDataArbitrator.parse({ query }) on the payload query.data
ArbitratorParse(data) ==
    /\ \E r \in {ArbitratorParseItemList(data)} :
           arbitrated' = [called |-> TRUE, payload |-> data, threw |-> r.threw,
                          properties |-> r.properties]
    /\ UNCHANGED <<finds, outsideHelpers>>

SmwNext == \E data \in SmwPayloads : ArbitratorParse(data)

SpecSmw == Init /\ [][SmwNext]_vars

\* the positions of the properties of a payload that are not internal
KeptProps(data) == {i \in 1 .. Len(data) : ~IsInternalProp(data[i].property)}

\* C23: SMWDataArbitrator.parse does not fail on a payload that has a
\* property with an empty dataitem list: it returns one entry for every
\* property that is not internal, in the order of the payload, and the entry
\* of a property with an empty dataitem list has the type null.
C23_EmptyDataitemIsNullTyped ==
    arbitrated.called =>
        /\ ~arbitrated.threw
        /\ Len(arbitrated.properties) = Cardinality(KeptProps(arbitrated.payload))
        /\ \A i \in KeptProps(arbitrated.payload) :
               \E e \in {arbitrated.properties[
                             Cardinality({j \in KeptProps(arbitrated.payload) : j <= i})]} :
                   /\ e.propName = arbitrated.payload[i].property
                   /\ arbitrated.payload[i].dataitem = <<>> => e.type = "null"

----------------------------------------------------------------------------
(* Plebiscite.find (server features/plebiscite.js) and                      *)
(* PlebisciteDatabase.find (legacy/variant2 services/plebiscite/            *)
(* database.js) over a collection of erowid reports that does not change.   *)

\* number of find calls
MaxFinds == 2

\* the collection: substanceInfo.substance and meta.published of every report
Reports ==
    <<[substance |-> "LSD", published |-> 1],
      [substance |-> "MDMA", published |-> 3],
      [substance |-> "LSD", published |-> 2]>>

\* the value of an argument that was not given
Undefined == "undefined"

PlebisciteImpls == {"server", "variant2"}

\* the arguments of the find calls; a substance that is given is not empty
FindArgs ==
    [substance : {Undefined, "LSD", "MDMA", "zzz"}, offset : {0, 1}, limit : {0, 1, 2}]

\* the query object handed to collection.find:
\*   server:   if (!substance === true) query[...] = substance
\*   variant2: if (substance) query[...] = substance
FindQuery(impl, substance) ==
    IF impl = "server"
    THEN (IF substance = Undefined
          THEN [filtered |-> TRUE, value |-> Undefined]
          ELSE [filtered |-> FALSE, value |-> Undefined])
    ELSE (IF substance # Undefined
          THEN [filtered |-> TRUE, value |-> substance]
          ELSE [filtered |-> FALSE, value |-> Undefined])

\* collection.find(query): the positions of the reports that match; a filter
\* on undefined is one on null, which no report's substance is
Matching(query) ==
    {i \in 1 .. Len(Reports) : query.filtered => Reports[i].substance = query.value}

RECURSIVE SortByPublished(_)
\* .sort({'meta.published': -1}) of the reports at the positions in S
SortByPublished(S) ==
    IF S = {} THEN <<>>
    ELSE Apply(CHOOSE i \in S : \A j \in S : Reports[i].published >= Reports[j].published,
               LAMBDA first : <<Reports[first]>> \o SortByPublished(S \ {first}))

\* .skip(offset).limit(limit) as the two classes pass them on: the server as
\* given, variant2 with offset || 0 and limit || 50; a limit of 0 is none
SkipLimit(impl, list, offset, limit) ==
    Paginate(list, IF impl = "variant2" /\ limit = 0 THEN 50 ELSE limit, offset)

\* find({substance, offset, limit})
Find(impl, args) ==
    /\ Len(finds) < MaxFinds
    /\ \E query \in {FindQuery(impl, args.substance)} :
           finds' = Append(finds,
                       [impl |-> impl, args |-> args, query |-> query,
                        result |-> SkipLimit(impl, SortByPublished(Matching(query)),
                                             args.offset, args.limit)])
    /\ UNCHANGED <<arbitrated, outsideHelpers>>

PlebisciteNext == \E impl \in PlebisciteImpls : \E args \in FindArgs : Find(impl, args)

SpecPlebiscite == Init /\ [][PlebisciteNext]_vars

\* C24: every find call filters by substanceInfo.substance = substance when
\* a substance is given and has no filter on that field when none is given,
\* so that it returns reports of that substance only, or of any substance.
C24_FilterIffSubstanceGiven ==
    \A c \in 1 .. Len(finds) :
        IF finds[c].args.substance # Undefined
        THEN /\ finds[c].query = [filtered |-> TRUE, value |-> finds[c].args.substance]
             /\ \A i \in 1 .. Len(finds[c].result) :
                    finds[c].result[i].substance = finds[c].args.substance
        ELSE /\ ~finds[c].query.filtered
             /\ finds[c].args.limit = 0 /\ finds[c].args.offset = 0
                    => Len(finds[c].result) = Len(Reports)

----------------------------------------------------------------------------
(* The PwConnector of src/unnamed/part_010: the same BifrostCache, get,     *)
(* _getCacheIfNeeded and _unwindMarkAndRefreshItem as the server's, but     *)
(* _fetchUrl is one request(...) without retry, _fetchRefreshedCacheItem    *)
(* has no try, and _markAndRefreshItemAsync is a coroutine.                 *)

\* what request(...) can come to: a 2xx response, a response of another
\* status (request resolves for every status), a transport error
RequestResponses == {"ok", "http", "transport"}

\* _fetchRefreshedCacheItem from the point where yield this._fetchUrl(url)
\* settles.  Resolved: this._cache.add(url, response.body), and the
\* coroutine goes on to markBeingRefreshed(url, false).  Rejected: the error
\* is thrown out of _fetchRefreshedCacheItem; a first-miss get rejects with
\* it, and _markAndRefreshItemAsync ends there, rejected, before its last
\* statement.
RequestSettles(j, r) ==
    /\ j.pc = "fetch"
    /\ IF r # "transport"
       THEN /\ PwFetched(j, PwBody(j.id, r))
            /\ pwJobs' = PwAfterFetch(j)
       ELSE /\ pwJobs' = pwJobs \ {j}
            /\ UNCHANGED pwBackend
            /\ IF j.bg
               THEN UNCHANGED pwCalls
               ELSE pwCalls' = [pwCalls EXCEPT ![j.id].state = "threw"]
    /\ UNCHANGED <<now, pwProcessMap, outsidePw>>

PwRequestNext ==
    \/ \E u \in Keys : PwGet(u)
    \/ \E j \in pwJobs : PwNextTick(j)
    \/ \E j \in pwJobs : \E r \in RequestResponses : RequestSettles(j, r)
    \/ \E j \in pwJobs : PwUnmark(j)
    \/ PwTick

SpecPwRequest == Init /\ [][PwRequestNext]_vars

\* the URLs whose background refresh has not come to its end
PwRefreshesInFlight == {j.url : j \in {k \in pwJobs : k.bg}}

\* C25: a URL is marked as being refreshed only while its background refresh
\* is under way: when the fetch has settled, with a response or with an
\* error, the refresh goes on to clear the mark, and no mark is left behind
\* that would keep later reads of the expired URL from refreshing it.
C25_MarkClearedWhenFetchSettles == pwProcessMap \subseteq PwRefreshesInFlight

\* C26: the server's _fetchUrl gives up when its failure count exceeds 3: a
\* fetch of a URL whose attempts all failed is not retried after the fourth
\* failure, so that the get waiting for it comes to an end.
C26_GivesUpAfterThreeRetries ==
    \A j \in pwJobs : j.pc \in {"sleep", "fetch"} => j.attempts <= PwMaxFailures

----------------------------------------------------------------------------
(* Properties of the cache under concurrent gets of one key *)

\* the producer invocations for key k that have not settled
ProducersInFlight(k) == {t \in tasks : t.key = k /\ t.phase = "awaiting"}

\* C27: gets are coalesced on a first miss too: at most one producer
\* invocation per key is in flight at any time.
C27_OneProducerPerKey == \A k \in Keys : Cardinality(ProducersInFlight(k)) <= 1

\* C28: the stored value of a key never regresses: no step replaces an entry
\* by the result of a producer invocation that was started before the one
\* whose result the entry holds.  (A producer resolves with the number of the
\* get call that started it.)
C28_StoredValueNeverRegresses ==
    [][\A k \in Keys : (Has(k) /\ k \in DOMAIN store') =>
           store'[k].value >= store[k].value]_vars

----------------------------------------------------------------------------
(* The cache with the scheduling the event loop gives the background chain: *)
(* once a background producer has settled, the .catch and .finally handlers *)
(* of its chain are queued microtasks, and a queued microtask is run.       *)

SpecLive ==
    /\ Init
    /\ [][Next]_vars
    /\ \A k \in Keys : WF_vars(\E t \in tasks : t.key = k /\ RefreshFinally(t))

\* a background producer of k has settled and its chain has not come to its
\* .finally yet
RefreshSettling(k) == \E t \in BgTasks(k) : t.phase # "awaiting"

----------------------------------------------------------------------------
(* Properties of the service: the default listing *)

\* a getSubstances call with no selector: the default listing
IsListingRequest(r) ==
    /\ r.args.query = "" /\ r.args.effect = ""
    /\ r.args.chemicalClass = "" /\ r.args.psychoactiveClass = ""

\* C30: the common_name and systematic_name lookups are issued only for a
\* call with a query: a default listing issues one ask call, on
\* Category:Psychoactive substance, also when it returns no result.
C30_FallbacksOnlyWithQuery ==
    \A i \in ReqIds :
        /\ \A s \in 1 .. Len(svcReqs[i].lookups) :
               calls[svcReqs[i].lookups[s]].key.cond \in {"common_name", "systematic_name"}
                   => svcReqs[i].args.query # ""
        /\ IsListingRequest(svcReqs[i]) =>
               /\ Len(svcReqs[i].lookups) = 1
               /\ calls[svcReqs[i].lookups[1]].key.cond = "category"

====
